---- MODULE Spec2Model ----
(***************************************************************************)
(* JTX reactive core: state references, the dependency graph, the          *)
(* microtask render pipeline, persistence / URL mirroring and lexical      *)
(* scope resolution, modelled over one small page:                         *)
(*                                                                         *)
(*   body                                                                  *)
(*    +- stOuter  <jtx-state name="ui" persist="k" persist-url="q">       *)
(*    |    +- btnOuter (jtx-on)   +- txtOuter (jtx-text)                   *)
(*    |    +- inpOuter (jtx-model="@ui.k.p")                               *)
(*    |    +- wrap (jtx-if="@ui.q")                                        *)
(*    |    |    +- stPrefs <jtx-state name="prefs" persist="k"             *)
(*    |    |         |       jtx-on="update: ...">                         *)
(*    |    |         +- btnPrefs (jtx-on)  +- txtPrefs (jtx-text)          *)
(*    |    +- item (rendered list item)                                    *)
(*    |         +- stInner <jtx-state name="ui"> (scoped, unregistered)    *)
(*    |              +- btnInner (jtx-on)  +- txtInner (jtx-text)          *)
(*    +- aside (jtx-text="@ui.q", jtx-on) outside every definition         *)
(***************************************************************************)
EXTENDS Integers, Sequences, FiniteSets, TLC

\* ---------------------------------------------------------------- bounds
MaxVal ==
  1
MaxOps ==
  3
MaxCount ==
  2

\* ---------------------------------------------------------------- values
None ==
  "none"
Null ==
  [t |-> "null", n |-> 0]
Num(n) ==
  [t |-> "num", n |-> n]
Obj(n) ==
  [t |-> "obj", n |-> n]
Nums ==
  {Num(n) : n \in 0..MaxVal}
Objs ==
  {Obj(n) : n \in 0..MaxVal}

\* JSON.stringify on the values the page uses: null, a number, {p: n}
JSONstringify(v) ==
  CASE v.t = "null" -> "null"
    [] v.t = "num"  -> ToString(v.n)
    [] v.t = "obj"  -> "{\"p\":" \o ToString(v.n) \o "}"

\* JS truthiness of a value
Truthy(v) ==
  CASE v.t = "null" -> FALSE
    [] v.t = "num"  -> v.n # 0
    [] v.t = "obj"  -> TRUE

\* ------------------------------------------------------- sequence helpers
Range(s) ==
  {s[i] : i \in 1..Len(s)}

\* Set.prototype.add on an insertion-ordered set
SetAdd(s, x) ==
  IF x \in Range(s) THEN s ELSE Append(s, x)

\* Set.prototype.delete on an insertion-ordered set
SetDelete(s, x) ==
  SelectSeq(s, LAMBDA y : y # x)

RECURSIVE SetAddAll(_, _)
SetAddAll(s, xs) ==
  IF xs = <<>> THEN s ELSE SetAddAll(SetAdd(s, Head(xs)), Tail(xs))

\* ------------------------------------------------------------ static page
States ==
  {"outer", "prefs", "inner"}
Names ==
  {"ui", "prefs"}
Keys ==
  {"k", "q"}
\* registry.srcs: the page's one source; definitions are states and sources
Srcs ==
  {"feed"}
Defs ==
  States \cup Srcs
Elements ==
  {"body", "stOuter", "btnOuter", "txtOuter", "inpOuter", "wrap", "stPrefs",
   "btnPrefs", "txtPrefs", "item", "stInner", "btnInner", "txtInner", "aside"}

\* st.name
stName ==
  [s \in States |-> IF s = "prefs" THEN "prefs" ELSE "ui"]

\* st.el
stEl ==
  [s \in States |-> CASE s = "outer" -> "stOuter"
                      [] s = "prefs" -> "stPrefs"
                      [] s = "inner" -> "stInner"]

\* st.persistedKeys (persist attribute)
persistedKeys ==
  [s \in States |-> IF s = "inner" THEN {} ELSE {"k"}]

\* st.urlKeys (persist-url attribute)
urlKeys ==
  [s \in States |-> IF s = "outer" THEN {"q"} ELSE {}]

\* el.__jtxState marker
jtxState ==
  [e \in Elements |-> CASE e = "stOuter" -> "outer"
                        [] e = "stPrefs" -> "prefs"
                        [] e = "stInner" -> "inner"
                        [] OTHER -> None]

\* parentElement while every node is in the tree
BaseParent ==
  [e \in Elements |->
     CASE e \in {"stOuter", "aside"} -> "body"
       [] e \in {"btnOuter", "txtOuter", "inpOuter", "wrap", "item"} -> "stOuter"
       [] e = "stPrefs" -> "wrap"
       [] e \in {"btnPrefs", "txtPrefs"} -> "stPrefs"
       [] e = "stInner" -> "item"
       [] e \in {"btnInner", "txtInner"} -> "stInner"
       [] OTHER -> None]

\* nextScopeAncestor: parentElement; the jtx-if host has none while swapped out
nextScopeAncestor(e, rem) ==
  IF e = "wrap" /\ rem THEN None ELSE BaseParent[e]

\* the ancestor walk of findNearestLocalState / isWithinScope, nearest first
RECURSIVE ScopeChain(_, _)
ScopeChain(e, rem) ==
  IF e = None THEN <<>> ELSE <<e>> \o ScopeChain(nextScopeAncestor(e, rem), rem)

isConnected(e, rem) ==
  "body" \in Range(ScopeChain(e, rem))

isWithinScope(descendant, owner, rem) ==
  owner \in Range(ScopeChain(descendant, rem))

RECURSIVE FirstMarked(_, _)
FirstMarked(chain, name) ==
  IF chain = <<>> THEN None
  ELSE IF jtxState[Head(chain)] # None /\ stName[jtxState[Head(chain)]] = name
       THEN jtxState[Head(chain)]
       ELSE FirstMarked(Tail(chain), name)

findNearestLocalState_none(el, name, rem) ==
  None

findNearestLocalState(el, name, rem) ==
  FirstMarked(ScopeChain(el, rem), name)

\* registry.states.get(name) over the insertion-ordered registry
RegistryGet(reg, name) ==
  IF \E i \in 1..Len(reg) : stName[reg[i]] = name
  THEN reg[CHOOSE i \in 1..Len(reg) : stName[reg[i]] = name]
  ELSE None

resolveState_noGate(name, currentEl, reg, rem) ==
  LET local == findNearestLocalState(currentEl, name, rem)
  IN  IF local # None THEN local ELSE RegistryGet(reg, name)

resolveState(name, currentEl, reg, rem) ==
  LET local == findNearestLocalState(currentEl, name, rem)
      st    == RegistryGet(reg, name)
  IN  IF local # None THEN local
      ELSE IF st = None THEN None
      ELSE IF isWithinScope(currentEl, stEl[st], rem) THEN st
      ELSE IF ~isConnected(currentEl, rem) THEN st
      ELSE None


\* ------------------------------------------------------ bindings, handlers
Bindings ==
  {"tOuter", "mOuter", "ifWrap", "tPrefs", "tInner", "tAside"}

\* binding.el
bindingEl ==
  [b \in Bindings |-> CASE b = "tOuter" -> "txtOuter"
                        [] b = "mOuter" -> "inpOuter"
                        [] b = "ifWrap" -> "wrap"
                        [] b = "tPrefs" -> "txtPrefs"
                        [] b = "tInner" -> "txtInner"
                        [] b = "tAside" -> "aside"]

\* the @names one run of binding.update() dereferences, in evaluation order;
\* txtPrefs shows "@prefs.q ? @ui.q : @prefs.k", a conditional read
BindingRefs(b, val) ==
  IF b = "tPrefs"
  THEN IF Truthy(val["prefs"]["q"]) THEN <<"prefs", "ui">> ELSE <<"prefs">>
  ELSE <<"ui">>

\* elements carrying a click handler (jtx-on), and the @name their code uses
Handlers ==
  {"btnOuter", "btnPrefs", "btnInner", "aside"}
handlerName ==
  [h \in Handlers |-> IF h = "btnPrefs" THEN "prefs" ELSE "ui"]

\* values a page script assigns to key q (null or a positive number) and to
\* key k (an object {p: n})
QVals ==
  {Null} \cup {Num(n) : n \in 1..MaxVal}
ValsOf(key) ==
  IF key = "q" THEN QVals ELSE Objs

\* ---------------------------------------------------------- microtask queue
Render ==
  [t |-> "render", h |-> None]
Observer ==
  [t |-> "observer", h |-> None]
Finish(h) ==
  [t |-> "finish", h |-> h]

\* ------------------------------------------------------------ durable store
NoEntry ==
  "<no entry>"
Absent ==
  "<absent>"
StoreKey(name, key) ==
  "jtx:" \o name \o ":" \o key
StoreKeys ==
  {StoreKey(n, k) : n \in Names, k \in Keys}

VARIABLES
  value,         \* st.value of every state
  pendingKeys,   \* st.pendingKeys (insertion ordered)
  changed,       \* registry.changed (insertion ordered)
  renderQueued,  \* core.js renderQueued
  mq,            \* the host's microtask queue (FIFO)
  draining,      \* the host is inside a microtask checkpoint
  store,         \* localStorage
  url,           \* the query string, by parameter
  bindingDeps,   \* registry.bindingDeps
  depBindings,   \* registry.depBindings
  registered,    \* registry.states, in insertion order
  scopedStates,  \* registry.scopedStates, in insertion order
  removed,       \* bindIf's `removed` flag of the wrap element
  pc,            \* position of the render microtask
  todo,          \* states flushStateUpdates has still to visit
  toRun,         \* bindings runBindingsFor has still to run
  hpc,           \* position of every click handler
  thread,        \* the handler whose synchronous code is executing
  written,       \* states each in-flight handler has written so far
  nops,          \* page-script operations performed
  flushLog,      \* what the current flush did, in order
  wcount,        \* writes per state and key since the last flush ended
  flushWrites,   \* wcount as it was when the current flush began
  touched,       \* persisted keys changed by a handler or a model binding
  lateWritten,   \* keys written in this flush after their state was visited
  expected,      \* bindings attached to `changed` at the snapshot
  noDepAtSnap,   \* bindings without a dependency at the snapshot
  schedCalls     \* scheduleRender() calls since the last flush began

VARIABLES
  src,           \* the source object initSrc builds for <jtx-src name="feed">
  fetches,       \* fetchHttpSource calls suspended at an await
  srcObs         \* what the last source operation did

VARIABLES
  insert,        \* the closure of bindInsertList for the <jtx-insert> element
  children,      \* the child nodes of the <jtx-insert> element, in order
  listObs        \* what the last run of the list's update() did

VARIABLES
  boot,          \* registry.states / scopedStates and the states initState built
  bootObs        \* what the last call of initState was given

VARIABLES
  expr           \* the last expression given to execute() and its value

VARIABLES
  currentBinding, \* core.js currentBinding
  updating,       \* the update() functions on the call stack, outermost first
  nestDeps,       \* registry.bindingDeps / depBindings of the list's bindings
  nestObs         \* the references read by each binding's latest run

CoreVars ==
  <<value, pendingKeys, changed, renderQueued, mq, draining, store, url,
    bindingDeps, depBindings, registered, scopedStates, removed, pc, todo,
    toRun, hpc, thread, written, nops, flushLog, wcount, flushWrites,
    touched, lateWritten, expected, noDepAtSnap, schedCalls>>
SrcVars ==
  <<src, fetches, srcObs>>
ListVars ==
  <<insert, children, listObs>>
BootVars ==
  <<boot, bootObs>>
ExprVars ==
  <<expr>>
VARIABLES
  keyed,          \* one state object: its value, keyMap and pendingKeys
  keyedObs        \* the last write to it: access path, spelling, value

VARIABLES
  registry,       \* registry.states and registry.srcs: name -> holder element
  defEls          \* the <jtx-state> / <jtx-src> elements: name, stage

VARIABLES
  feed            \* a state read by the list's `for` expression, and its flush

VARIABLES
  onAttr          \* a jtx-on attribute as written, and what bindOn parsed from it

NestVars ==
  <<currentBinding, updating, nestDeps, nestObs>>
OnVars ==
  <<onAttr>>
FeedVars ==
  <<feed>>
KeyVars ==
  <<keyed, keyedObs>>
RegVars ==
  <<registry, defEls>>
AuxVars ==
  <<BootVars, ExprVars, NestVars, KeyVars, RegVars, OnVars, FeedVars>>
PeripheralVars ==
  <<SrcVars, ListVars, AuxVars>>

vars ==
  <<CoreVars, SrcVars, ListVars, AuxVars>>

\* ----------------------------------------------------------------- the heap
\* the part of the program state a write touches, threaded through the
\* statements of one step
Cur ==
  [value |-> value, pendingKeys |-> pendingKeys, changed |-> changed,
   renderQueued |-> renderQueued, mq |-> mq, schedCalls |-> schedCalls,
   wcount |-> wcount, lateWritten |-> lateWritten]

Commit(c) ==
  /\ value' = c.value
  /\ pendingKeys' = c.pendingKeys
  /\ changed' = c.changed
  /\ renderQueued' = c.renderQueued
  /\ mq' = c.mq
  /\ schedCalls' = c.schedCalls
  /\ wcount' = c.wcount
  /\ lateWritten' = c.lateWritten

\* observation counters stop at MaxCount
Bump(n) ==
  IF n < MaxCount THEN n + 1 ELSE n

scheduleRender_noGuard(c) ==
  [c EXCEPT !.renderQueued = TRUE, !.mq = Append(@, Render),
            !.schedCalls = Bump(@)]

scheduleRender(c) ==
  IF c.renderQueued
  THEN [c EXCEPT !.schedCalls = Bump(@)]
  ELSE [c EXCEPT !.renderQueued = TRUE, !.mq = Append(@, Render),
                 !.schedCalls = Bump(@)]

\* the set trap of the state reference: `@name.key = v`
StateRefSet_dupKeys(c, s, key, v, late) ==
  scheduleRender(
    [c EXCEPT !.value[s][key] = v,
              !.pendingKeys[s] = Append(@, key),
              !.changed = SetAdd(@, s),
              !.wcount[s][key] = IF pc = "idle" THEN Bump(@) ELSE @,
              !.lateWritten = IF late THEN @ \cup {<<s, key>>} ELSE @])

StateRefSet_noSchedule(c, s, key, v, late) ==
  [c EXCEPT !.value[s][key] = v,
            !.pendingKeys[s] = SetAdd(@, key),
            !.changed = SetAdd(@, s),
            !.wcount[s][key] = IF pc = "idle" THEN Bump(@) ELSE @,
            !.lateWritten = IF late THEN @ \cup {<<s, key>>} ELSE @]

StateRefSet(c, s, key, v, late) ==
  scheduleRender(
    [c EXCEPT !.value[s][key] = v,
              !.pendingKeys[s] = SetAdd(@, key),
              !.changed = SetAdd(@, s),
              !.wcount[s][key] = IF pc = "idle" THEN Bump(@) ELSE @,
              !.lateWritten = IF late THEN @ \cup {<<s, key>>} ELSE @])

\* `@name.key = v` evaluated at element el: an unknown name yields {} and the
\* assignment lands on that throw-away object
RefAssign(c, name, el, key, v, late) ==
  LET st == resolveState(name, el, registered, removed)
  IN  IF st = None THEN c ELSE StateRefSet(c, st, key, v, late)


\* --------------------------------------------------------- dependency graph
\* recordDependency(dep) while currentBinding = b, on g = [bd, db]
recordDependency_oneWay(g, b, dep) ==
  IF dep \in Range(g.bd[b]) THEN g
  ELSE [g EXCEPT !.bd[b] = Append(@, dep)]

recordDependency(g, b, dep) ==
  IF dep \in Range(g.bd[b]) THEN g
  ELSE [bd |-> [g.bd EXCEPT ![b] = Append(@, dep)],
        db |-> [d \in Defs |-> IF d = dep THEN SetAdd(g.db[d], b) ELSE g.db[d]]]

\* runBinding, first half: drop the previous run's edges in both maps
ClearDeps_keepReverse(g, b) ==
  [g EXCEPT !.bd[b] = <<>>]

ClearDeps(g, b) ==
  [bd |-> [g.bd EXCEPT ![b] = <<>>],
   db |-> [d \in Defs |->
             IF d \in Range(g.bd[b]) THEN SetDelete(g.db[d], b) ELSE g.db[d]]]

\* $ref(name) for every name the update dereferences: resolve, then record
RECURSIVE RecordRefs(_, _, _, _, _)
RecordRefs(g, b, names, reg, rem) ==
  IF names = <<>> THEN g
  ELSE LET st == resolveState(Head(names), bindingEl[b], reg, rem)
       IN  RecordRefs(IF st = None THEN g ELSE recordDependency(g, b, st),
                      b, Tail(names), reg, rem)

\* runBinding(b), as far as the graph is concerned
runBinding(g, b, val, reg, rem) ==
  RecordRefs(ClearDeps(g, b), b, BindingRefs(b, val), reg, rem)

\* the definitions a run of b reads
ReadsOf(b, val, reg, rem) ==
  {resolveState(BindingRefs(b, val)[i], bindingEl[b], reg, rem) :
     i \in 1..Len(BindingRefs(b, val))} \ {None}

\* runBindingsFor(deps): the bindings to run, each once, in Set order
RECURSIVE runBindingsFor_noDedupe(_, _)
runBindingsFor_noDedupe(deps, db) ==
  IF deps = <<>> THEN <<>>
  ELSE db[Head(deps)] \o runBindingsFor_noDedupe(Tail(deps), db)

RECURSIVE runBindingsFor(_, _)
runBindingsFor(deps, db) ==
  IF deps = <<>> THEN <<>>
  ELSE SetAddAll(db[Head(deps)],
                 runBindingsFor(Tail(deps), db))

\* ------------------------------------------------------------ persistence
\* flushStateUpdates, the localStorage.setItem loop over st.pendingKeys
Persist(st, s, pend, val) ==
  [sk \in StoreKeys |->
     IF \E key \in Range(pend) \cap persistedKeys[s] :
          sk = StoreKey(stName[s], key)
     THEN JSONstringify(
            val[CHOOSE key \in Range(pend) \cap persistedKeys[s] :
                  sk = StoreKey(stName[s], key)])
     ELSE st[sk]]

syncUrlFromState_keepNull(u, s, val) ==
  [key \in Keys |->
     IF key \in urlKeys[s] THEN JSONstringify(val[key]) ELSE u[key]]

syncUrlFromState(u, s, val) ==
  [key \in Keys |->
     IF key \in urlKeys[s]
     THEN IF val[key] = Null THEN Absent ELSE JSONstringify(val[key])
     ELSE u[key]]

\* ----------------------------------------------------------------- sources
Undefined ==
  [t |-> "undefined", n |-> 0]
\* an array of n items
Arr(n) ==
  [t |-> "arr", n |-> n]

\* src.error === null
NoError ==
  "null"

\* before initSrc has run for the element
NoSrc ==
  [kind |-> "none", status |-> "idle", value |-> Undefined, error |-> NoError,
   io |-> "none",
   hidden |-> [loading |-> TRUE, error |-> TRUE, empty |-> TRUE]]

NoSrcObs ==
  [events |-> <<>>, failed |-> FALSE, before |-> Undefined, issued |-> 0,
   done |-> 0, cause |-> "none", raced |-> FALSE,
   last |-> [id |-> 0, status |-> "idle", error |-> NoError, value |-> Undefined]]

\* ------------------------------------------------------------------- lists
\* before bindInsertList has run for the element; window 0 is windowSize null,
\* map is kept as its key set (the node of a key is the child carrying it)
NoInsert ==
  [strategy |-> {}, window |-> 0, keyExpr |-> FALSE, order |-> <<>>,
   map |-> {}, prevCount |-> 0, initFired |-> FALSE]

NoListObs ==
  [before |-> <<>>, was |-> NoInsert, batch |-> <<>>, events |-> <<>>,
   n |-> 0]

\* the state `feed` of <jtx-insert for="e in @feed.items">: its two keys,
\* pendingKeys, whether registry.changed holds it, whether depBindings holds
\* the list binding for it, the keys of its last `update` event, writes so far
MaxFeed ==
  3
NoFeed ==
  [items |-> <<>>, other |-> 0, pendingKeys |-> {}, changed |-> FALSE,
   dep |-> FALSE, flushed |-> {}, n |-> 0]

\* ------------------------------------------------------- state definitions
\* the <jtx-state> elements of a page that is being initialised, in
\* document order
BootEls ==
  {"first", "second"}

\* a key st.value does not have / an attribute the element does not have
Missing ==
  [t |-> "missing", n |-> 0]

NoState ==
  [key \in Keys |-> Missing]

\* nothing initialised yet: registry.states and scopedStates empty, no
\* element carries __jtxState, no event fired
NoBoot ==
  [states |-> [name \in Names |-> None], scopedStates |-> {},
   jtxState |-> [el \in BootEls |-> None],
   value |-> [el \in BootEls |-> NoState],
   events |-> [el \in BootEls |-> <<>>]]

NoBootObs ==
  [el |-> None, name |-> None, register |-> TRUE, attrs |-> NoState,
   persist |-> {}, persistUrl |-> {}, stored |-> NoEntry, query |-> Absent,
   restore |-> NoState, before |-> NoBoot, tried |-> {}]

\* ------------------------------------------------------------- expressions
NoExpr ==
  [site |-> "none", code |-> <<>>, v |-> [t |-> "none", chars |-> <<>>]]

\* ------------------------------------------------------- nested bindings
\* the insert-list binding of a <jtx-insert> and the jtx-text bindings that
\* compileTemplateOnce creates for its item nodes
ListBinding ==
  "insert-list"
ItemBindings ==
  {"text1", "text2"}
NestBindings ==
  {ListBinding} \cup ItemBindings
NoNestDeps ==
  [bd |-> [b \in NestBindings |-> <<>>], db |-> [d \in Defs |-> <<>>]]
NoNestObs ==
  [reads |-> {}, created |-> {}, n |-> 0]

\* ---------------------------------------------------------- key spellings
\* the spellings of one key name
Spellings ==
  {"count", "Count", "COUNT"}
toLowerCase(p) ==
  "count"
NoKeyed ==
  [value |-> [p \in Spellings |-> Undefined], keyMap |-> None,
   pendingKeys |-> {}]
NoKeyedObs ==
  [path |-> "none", prop |-> None, v |-> Undefined]

\* ------------------------------------------------------- jtx-on attribute
\* a string is a sequence of characters; an identifier counts as one character
MaxClauses ==
  3
OnEvents ==
  {"click", "input"}
\* handler code: a call, a ternary, an object literal argument, a quoted text
OnCodes ==
  { <<"a", "(", ")">>,
    <<"c", " ", "?", " ", "d", " ", ":", " ", "e">>,
    <<"f", "(", "{", "k", ":", " ", "v", "}", ")">>,
    <<"g", "(", "'", ":", ";", "'", ")">> }
NoOn ==
  [clauses |-> <<>>, parsed |-> FALSE, out |-> <<>>]

\* ------------------------------------------------- definition lifecycle
\* two <jtx-state> and two <jtx-src> elements that come and go
DefEls ==
  {"state1", "state2", "src1", "src2"}
kindOf(el) ==
  IF el \in {"state1", "state2"} THEN "states" ELSE "srcs"
DefNames ==
  {"a", "b"}
NoNames ==
  [kind \in {"states", "srcs"} |-> [name \in DefNames |-> None]]
\* stage: none (not in the page yet), live (initialized and registered),
\* ignored (rejected as a duplicate), gone (removed, cleanup has run)
NoDefEls ==
  [el \in DefEls |-> [name |-> None, stage |-> "none"]]

\* -------------------------------------------------------------------- Init
InitValue ==
  [s \in States |-> [key \in Keys |->
     IF key = "k" THEN Obj(0) ELSE IF s = "outer" THEN Num(1) ELSE Null]]

\* bindAllIn walks the document and runs every binding once
BindOrder ==
  <<"tOuter", "mOuter", "ifWrap", "tPrefs", "tInner", "tAside">>

RECURSIVE BindAll(_, _)
BindAll(g, bs) ==
  IF bs = <<>> THEN g
  ELSE BindAll(runBinding(g, Head(bs), InitValue, <<"outer", "prefs">>, FALSE),
               Tail(bs))

InitGraph ==
  BindAll([bd |-> [b \in Bindings |-> <<>>], db |-> [d \in Defs |-> <<>>]],
          BindOrder)

Init ==
  /\ value = InitValue
  /\ pendingKeys = [s \in States |-> <<>>]
  /\ changed = <<>>
  /\ renderQueued = TRUE
  /\ mq = <<Render>>
  /\ draining = FALSE
  /\ store = [sk \in StoreKeys |-> NoEntry]
  /\ url = [key \in Keys |-> Absent]
  /\ bindingDeps = InitGraph.bd
  /\ depBindings = InitGraph.db
  /\ registered = <<"outer", "prefs">>
  /\ scopedStates = <<"inner">>
  /\ removed = FALSE
  /\ pc = "idle"
  /\ todo = <<>>
  /\ toRun = <<>>
  /\ hpc = [h \in Handlers |-> "idle"]
  /\ thread = None
  /\ written = [h \in Handlers |-> {}]
  /\ nops = 0
  /\ flushLog = <<>>
  /\ wcount = [s \in States |-> [key \in Keys |-> 0]]
  /\ flushWrites = [s \in States |-> [key \in Keys |-> 0]]
  /\ touched = {}
  /\ lateWritten = {}
  /\ expected = {}
  /\ noDepAtSnap = {}
  /\ schedCalls = 1
  /\ src = NoSrc
  /\ fetches = <<>>
  /\ srcObs = NoSrcObs
  /\ insert = NoInsert
  /\ children = <<>>
  /\ listObs = NoListObs
  /\ boot = NoBoot
  /\ bootObs = NoBootObs
  /\ expr = NoExpr
  /\ currentBinding = None
  /\ updating = <<>>
  /\ nestDeps = NoNestDeps
  /\ nestObs = NoNestObs
  /\ keyed = NoKeyed
  /\ keyedObs = NoKeyedObs
  /\ registry = NoNames
  /\ defEls = NoDefEls
  /\ onAttr = NoOn
  /\ feed = NoFeed


\* ------------------------------------------------------------ page scripts
\* a new task may dispatch an event: nothing is executing and the host is
\* not in the middle of a microtask checkpoint
ExternalOK ==
  /\ thread = None
  /\ pc = "idle"
  /\ ~draining

FlushVars ==
  <<pc, todo, toRun, flushLog, flushWrites, expected, noDepAtSnap>>
GraphVars ==
  <<bindingDeps, depBindings>>
DomVars ==
  <<registered, scopedStates, removed>>
MirrorVars ==
  <<store, url>>

\* bindOn's listener is entered: execute(code, ...) starts running (the page
\* is clicked again only once the previous handler has finished)
HandlerStart(h) ==
  /\ ExternalOK
  /\ \A x \in Handlers : hpc[x] = "idle"
  /\ nops < MaxOps
  /\ hpc' = [hpc EXCEPT ![h] = "running"]
  /\ thread' = h
  /\ written' = [written EXCEPT ![h] = {}]
  /\ UNCHANGED <<value, pendingKeys, changed, renderQueued, mq, draining,
                 nops, wcount, touched, lateWritten, schedCalls>>
  /\ UNCHANGED <<FlushVars, GraphVars, DomVars, MirrorVars>>
  /\ UNCHANGED PeripheralVars

\* handler code `@name.key = v`
HandlerWrite(h, key, v) ==
  /\ thread = h
  /\ nops < MaxOps
  /\ LET st == resolveState(handlerName[h], h, registered, removed)
     IN  /\ Commit(RefAssign(Cur, handlerName[h], h, key, v, FALSE))
         /\ written' = IF st = None THEN written
                       ELSE [written EXCEPT ![h] = @ \cup {st}]
         /\ touched' = IF st # None /\ key \in persistedKeys[st]
                       THEN touched \cup {<<st, key>>} ELSE touched
  /\ nops' = nops + 1
  /\ UNCHANGED <<draining, hpc, thread>>
  /\ UNCHANGED <<FlushVars, GraphVars, DomVars, MirrorVars>>
  /\ UNCHANGED PeripheralVars

\* handler code `@name.k.p = n`: the get trap hands out st.value.k and the
\* assignment mutates that object; on an unknown name `{}.k.p = n` throws and
\* bindOn's catch/finally ends the handler
HandlerNestedWrite(h, n) ==
  /\ thread = h
  /\ nops < MaxOps
  /\ LET st == resolveState(handlerName[h], h, registered, removed)
     IN  IF st = None
         THEN /\ hpc' = [hpc EXCEPT ![h] = "finishing"]
              /\ thread' = None
              /\ mq' = Append(mq, Finish(h))
              /\ UNCHANGED <<value, written, touched>>
         ELSE /\ value' = [value EXCEPT ![st]["k"] = Obj(n)]
              /\ written' = [written EXCEPT ![h] = @ \cup {st}]
              /\ touched' = IF "k" \in persistedKeys[st]
                            THEN touched \cup {<<st, "k">>} ELSE touched
              /\ UNCHANGED <<hpc, thread, mq>>
  /\ nops' = nops + 1
  /\ UNCHANGED <<pendingKeys, changed, renderQueued, draining, wcount,
                 lateWritten, schedCalls>>
  /\ UNCHANGED <<FlushVars, GraphVars, DomVars, MirrorVars>>
  /\ UNCHANGED PeripheralVars

\* handler code `await post(...)`: the handler is suspended on the network
HandlerAwait(h) ==
  /\ thread = h
  /\ hpc' = [hpc EXCEPT ![h] = "awaiting"]
  /\ thread' = None
  /\ UNCHANGED <<value, pendingKeys, changed, renderQueued, mq, draining,
                 written, nops, wcount, touched, lateWritten, schedCalls>>
  /\ UNCHANGED <<FlushVars, GraphVars, DomVars, MirrorVars>>
  /\ UNCHANGED PeripheralVars

\* the awaited response arrives in a later task
HandlerResume(h) ==
  /\ ExternalOK
  /\ mq = <<>>
  /\ hpc[h] = "awaiting"
  /\ hpc' = [hpc EXCEPT ![h] = "running"]
  /\ thread' = h
  /\ UNCHANGED <<value, pendingKeys, changed, renderQueued, mq, draining,
                 written, nops, wcount, touched, lateWritten, schedCalls>>
  /\ UNCHANGED <<FlushVars, GraphVars, DomVars, MirrorVars>>
  /\ UNCHANGED PeripheralVars

\* the handler's code returns; `await execute(...)` in bindOn resumes in a
\* microtask
HandlerEnd(h) ==
  /\ thread = h
  /\ hpc' = [hpc EXCEPT ![h] = "finishing"]
  /\ thread' = None
  /\ mq' = Append(mq, Finish(h))
  /\ UNCHANGED <<value, pendingKeys, changed, renderQueued, draining,
                 written, nops, wcount, touched, lateWritten, schedCalls>>
  /\ UNCHANGED <<FlushVars, GraphVars, DomVars, MirrorVars>>
  /\ UNCHANGED PeripheralVars

\* bindOn's `finally { scheduleRender(); }`
FinishTask ==
  /\ thread = None
  /\ pc = "idle"
  /\ mq # <<>>
  /\ Head(mq).t = "finish"
  /\ LET h == Head(mq).h
     IN  /\ Commit(scheduleRender([Cur EXCEPT !.mq = Tail(mq)]))
         /\ hpc' = [x \in Handlers |-> IF x = h THEN "idle" ELSE hpc[x]]
         /\ written' = [x \in Handlers |-> IF x = h THEN {} ELSE written[x]]
  /\ draining' = TRUE
  /\ UNCHANGED <<thread, nops, touched>>
  /\ UNCHANGED <<FlushVars, GraphVars, DomVars, MirrorVars>>
  /\ UNCHANGED PeripheralVars

\* bindModel's push() on inpOuter, jtx-model="@ui.k.p", control value n
bindModelPush(c, st, n) ==
  scheduleRender(
    [c EXCEPT !.value[st]["k"] = Obj(n),
              !.pendingKeys[st] = SetAdd(@, "k"),
              !.changed = SetAdd(@, st),
              !.wcount[st]["k"] = Bump(@)])

ModelPush(n) ==
  /\ ExternalOK
  /\ nops < MaxOps
  /\ LET st == resolveState("ui", "inpOuter", registered, removed)
     IN  /\ Commit(IF st = None THEN Cur ELSE bindModelPush(Cur, st, n))
         /\ touched' = IF st # None /\ "k" \in persistedKeys[st]
                       THEN touched \cup {<<st, "k">>} ELSE touched
  /\ nops' = nops + 1
  /\ UNCHANGED <<draining, hpc, thread, written>>
  /\ UNCHANGED <<FlushVars, GraphVars, DomVars, MirrorVars>>
  /\ UNCHANGED PeripheralVars


\* ------------------------------------------------------ the render microtask
\* the order of the calls in scheduleRender's microtask
FlushOrder_bindingsFirst ==
  <<"snapshot", "flushStateUpdates">>

FlushOrder ==
  <<"flushStateUpdates", "snapshot">>

PhaseAfter(p) ==
  IF p = FlushOrder[1] THEN FlushOrder[2] ELSE "done"

\* the states flushStateUpdates iterates: registry.states, then scopedStates
FlushTargets_registryOnly(reg, scoped) ==
  reg

FlushTargets(reg, scoped) ==
  reg \o scoped

LogEntry(t, who, keys, torn) ==
  [t |-> t, who |-> who, keys |-> keys, torn |-> torn]

\* the microtask queued by scheduleRender starts
FlushBegin ==
  /\ thread = None
  /\ pc = "idle"
  /\ mq # <<>>
  /\ Head(mq) = Render
  /\ mq' = Tail(mq)
  /\ renderQueued' = FALSE
  /\ draining' = TRUE
  /\ pc' = FlushOrder[1]
  /\ todo' = FlushTargets(registered, scopedStates)
  /\ flushLog' = <<>>
  /\ flushWrites' = wcount
  /\ wcount' = [s \in States |-> [key \in Keys |-> 0]]
  /\ schedCalls' = 0
  /\ lateWritten' = {}
  /\ UNCHANGED <<value, pendingKeys, changed, toRun, hpc, thread, written,
                 nops, touched, expected, noDepAtSnap>>
  /\ UNCHANGED <<GraphVars, DomVars, MirrorVars>>
  /\ UNCHANGED PeripheralVars

\* what the `update` listener on stPrefs (bindOnSelf) may do before its
\* first await: nothing, `@ui.q = v` or `@prefs.q = v`
ListenerWrites(s) ==
  IF s = "prefs" /\ nops < MaxOps
  THEN {[name |-> None, v |-> Null]}
         \cup {[name |-> nm, v |-> w] : nm \in Names, w \in QVals}
  ELSE {[name |-> None, v |-> Null]}

\* processState(st) of flushStateUpdates
ProcessState ==
  /\ pc = "flushStateUpdates"
  /\ todo # <<>>
  /\ LET s    == Head(todo)
         rest == Tail(todo)
         pend == pendingKeys[s]
         pers == SelectSeq(pend, LAMBDA key : key \in persistedKeys[s])
     IN  IF pend = <<>>
         THEN UNCHANGED <<value, pendingKeys, changed, renderQueued, mq,
                          schedCalls, wcount, lateWritten, store, url,
                          flushLog, nops>>
         ELSE /\ store' = Persist(store, s, pend, value[s])
              /\ url' = IF urlKeys[s] # {}
                        THEN syncUrlFromState(url, s, value[s]) ELSE url
              /\ flushLog' =
                   flushLog
                     \o [i \in 1..Len(pers) |->
                           LogEntry("persist", s, <<pers[i]>>, FALSE)]
                     \o (IF urlKeys[s] # {}
                         THEN <<LogEntry("url", s, <<>>, FALSE)>> ELSE <<>>)
                     \o <<LogEntry("update", s, pend, FALSE)>>
              /\ \E lw \in ListenerWrites(s) :
                   LET tgt == IF lw.name = None THEN None
                              ELSE resolveState(lw.name, stEl[s], registered,
                                                removed)
                       c1  == IF lw.name = None THEN Cur
                              ELSE RefAssign(Cur, lw.name, stEl[s], "q", lw.v,
                                             tgt \notin Range(rest))
                       c2  == IF s = "prefs"
                              THEN [c1 EXCEPT !.mq = Append(@, Finish(stEl[s]))]
                              ELSE c1
                   IN  /\ Commit([c2 EXCEPT !.pendingKeys[s] = <<>>])
                       /\ nops' = IF lw.name = None THEN nops ELSE nops + 1
  /\ todo' = Tail(todo)
  /\ UNCHANGED <<draining, pc, toRun, hpc, thread, written, flushWrites,
                 touched, expected, noDepAtSnap>>
  /\ UNCHANGED <<GraphVars, DomVars>>
  /\ UNCHANGED PeripheralVars

\* flushStateUpdates returns
FlushStatesEnd ==
  /\ pc = "flushStateUpdates"
  /\ todo = <<>>
  /\ pc' = PhaseAfter("flushStateUpdates")
  /\ UNCHANGED <<value, pendingKeys, changed, renderQueued, mq, draining,
                 todo, toRun, hpc, thread, written, nops, flushLog, wcount,
                 flushWrites, touched, lateWritten, expected, noDepAtSnap,
                 schedCalls>>
  /\ UNCHANGED <<GraphVars, DomVars, MirrorVars>>
  /\ UNCHANGED PeripheralVars

\* `const deps = new Set(registry.changed); registry.changed.clear();` and
\* the toRun loop of runBindingsFor
Snapshot ==
  /\ pc = "snapshot"
  /\ toRun' = runBindingsFor(changed, depBindings)
  /\ changed' = <<>>
  /\ expected' = UNION {Range(depBindings[d]) : d \in Range(changed)}
  /\ noDepAtSnap' = {b \in Bindings : bindingDeps[b] = <<>>}
  /\ pc' = "runBindingsFor"
  /\ UNCHANGED <<value, pendingKeys, renderQueued, mq, draining, todo, hpc,
                 thread, written, nops, flushLog, wcount, flushWrites,
                 touched, lateWritten, schedCalls>>
  /\ UNCHANGED <<GraphVars, DomVars, MirrorVars>>
  /\ UNCHANGED PeripheralVars

\* values the expression of txtOuter may assign to @ui.q while it is
\* evaluated (NoWrite: the expression only reads)
NoWrite ==
  [t |-> "none", n |-> 0]
BindingWrites(b) ==
  IF b = "tOuter" /\ nops < MaxOps THEN {NoWrite} \cup QVals ELSE {NoWrite}

\* one iteration of `for (const b of toRun) runBinding(b)`
RunBinding ==
  /\ pc = "runBindingsFor"
  /\ toRun # <<>>
  /\ LET b     == Head(toRun)
         g     == runBinding([bd |-> bindingDeps, db |-> depBindings], b,
                             value, registered, removed)
         reads == ReadsOf(b, value, registered, removed)
         torn  == \E h \in Handlers :
                    hpc[h] = "awaiting" /\ written[h] \cap reads # {}
         ifSt  == resolveState("ui", "wrap", registered, removed)
         ok    == ifSt # None /\ Truthy(value[ifSt]["q"])
     IN  /\ bindingDeps' = g.bd
         /\ depBindings' = g.db
         /\ flushLog' = Append(flushLog, LogEntry("run", b, <<>>, torn))
         /\ \E w \in BindingWrites(b) :
              LET c1 == IF w = NoWrite THEN Cur
                        ELSE RefAssign(Cur, "ui", bindingEl[b], "q", w,
                                       resolveState("ui", bindingEl[b],
                                                    registered, removed)
                                         \notin Range(todo))
                  c2 == IF b = "ifWrap" /\ ~ok /\ ~removed
                        THEN [c1 EXCEPT !.mq = SetAdd(@, Observer)]
                        ELSE c1
              IN  /\ Commit(c2)
                  /\ nops' = IF w = NoWrite THEN nops ELSE nops + 1
         /\ removed' = IF b = "ifWrap" THEN ~ok ELSE removed
  /\ toRun' = Tail(toRun)
  /\ UNCHANGED <<draining, pc, todo, hpc, thread, written, flushWrites,
                 touched, expected, noDepAtSnap, registered, scopedStates>>
  /\ UNCHANGED MirrorVars
  /\ UNCHANGED PeripheralVars

\* runBindingsFor returns
RunBindingsEnd ==
  /\ pc = "runBindingsFor"
  /\ toRun = <<>>
  /\ pc' = PhaseAfter("snapshot")
  /\ UNCHANGED <<value, pendingKeys, changed, renderQueued, mq, draining,
                 todo, toRun, hpc, thread, written, nops, flushLog, wcount,
                 flushWrites, touched, lateWritten, expected, noDepAtSnap,
                 schedCalls>>
  /\ UNCHANGED <<GraphVars, DomVars, MirrorVars>>
  /\ UNCHANGED PeripheralVars

\* the render microtask returns to the host
FlushEnd ==
  /\ pc = "done"
  /\ pc' = "idle"
  /\ draining' = (mq # <<>>)
  /\ flushLog' = <<>>
  /\ flushWrites' = [s \in States |-> [key \in Keys |-> 0]]
  /\ expected' = {}
  /\ noDepAtSnap' = {}
  /\ lateWritten' = {}
  /\ todo' = <<>>
  /\ UNCHANGED <<value, pendingKeys, changed, renderQueued, mq, toRun, hpc,
                 thread, written, nops, wcount, touched, schedCalls>>
  /\ UNCHANGED <<GraphVars, DomVars, MirrorVars>>
  /\ UNCHANGED PeripheralVars

\* the MutationObserver callback: runCleanupDeep(wrap) runs the cleanup that
\* initState registered for stPrefs
ObserverTask ==
  /\ thread = None
  /\ pc = "idle"
  /\ mq # <<>>
  /\ Head(mq) = Observer
  /\ mq' = Tail(mq)
  /\ draining' = (Tail(mq) # <<>>)
  /\ registered' = IF RegistryGet(registered, "prefs") = "prefs"
                   THEN SetDelete(registered, "prefs") ELSE registered
  /\ UNCHANGED <<value, pendingKeys, changed, renderQueued, hpc, thread,
                 written, nops, wcount, touched, lateWritten, schedCalls,
                 scopedStates, removed>>
  /\ UNCHANGED <<FlushVars, GraphVars, MirrorVars>>
  /\ UNCHANGED PeripheralVars

Next ==
  \/ \E h \in Handlers : HandlerStart(h)
  \/ \E h \in Handlers, key \in Keys : \E v \in ValsOf(key) :
       HandlerWrite(h, key, v)
  \/ \E h \in Handlers, n \in 0..MaxVal : HandlerNestedWrite(h, n)
  \/ \E h \in Handlers : HandlerAwait(h)
  \/ \E h \in Handlers : HandlerResume(h)
  \/ \E h \in Handlers : HandlerEnd(h)
  \/ FinishTask
  \/ \E n \in 0..MaxVal : ModelPush(n)
  \/ FlushBegin
  \/ ProcessState
  \/ FlushStatesEnd
  \/ Snapshot
  \/ RunBinding
  \/ RunBindingsEnd
  \/ FlushEnd
  \/ ObserverTask

Spec ==
  Init /\ [][Next]_vars

\* ---------------------------------------------------- pages without feedback
\* A page whose `update` listeners and binding expressions only read: the
\* listener of stPrefs and the expression of txtOuter make no assignment.
ProcessStateQuiet ==
  ProcessState /\ nops' = nops
RunBindingQuiet ==
  RunBinding /\ nops' = nops

QuietNext ==
  \/ \E h \in Handlers : HandlerStart(h)
  \/ \E h \in Handlers, key \in Keys : \E v \in ValsOf(key) :
       HandlerWrite(h, key, v)
  \/ \E h \in Handlers, n \in 0..MaxVal : HandlerNestedWrite(h, n)
  \/ \E h \in Handlers : HandlerAwait(h)
  \/ \E h \in Handlers : HandlerResume(h)
  \/ \E h \in Handlers : HandlerEnd(h)
  \/ FinishTask
  \/ \E n \in 0..MaxVal : ModelPush(n)
  \/ FlushBegin
  \/ ProcessStateQuiet
  \/ FlushStatesEnd
  \/ Snapshot
  \/ RunBindingQuiet
  \/ RunBindingsEnd
  \/ FlushEnd
  \/ ObserverTask

\* the host runs every queued microtask to its end, and the synchronous code
\* of a handler reaches its next await or its return
HostRuns ==
  /\ WF_vars(FinishTask)
  /\ WF_vars(ObserverTask)
  /\ WF_vars(FlushBegin)
  /\ WF_vars(ProcessStateQuiet)
  /\ WF_vars(FlushStatesEnd)
  /\ WF_vars(Snapshot)
  /\ WF_vars(RunBindingQuiet)
  /\ WF_vars(RunBindingsEnd)
  /\ WF_vars(FlushEnd)
  /\ \A h \in Handlers : WF_vars(HandlerAwait(h) \/ HandlerEnd(h))

QuietSpec ==
  Init /\ [][QuietNext]_vars /\ HostRuns


\* ------------------------------------------------- exceptions in a flush
\* where a flush can meet an exception: binding.update(), localStorage
\* .setItem, history.replaceState, a listener of the `update` event
Sites ==
  {"update()", "setItem", "replaceState", "listener"}

\* `try { binding.update(); } catch (e) { console.error(...); }`
runBindingTry_noCatch(threw) ==
  IF threw THEN "escapes" ELSE "returns"

runBindingTry(threw) ==
  "returns"

\* processState: the try around setItem, the try blocks of
\* syncUrlFromState, and fire's try around dispatchEvent
processStateTry(site, threw) ==
  "returns"

\* processState(st) with an exception at `site`; what precedes the site has
\* happened, the site's own effect has not
ProcessStateThrows(site) ==
  /\ pc = "flushStateUpdates"
  /\ todo # <<>>
  /\ nops < MaxOps
  /\ site \in Sites \ {"update()"}
  /\ LET s    == Head(todo)
         pend == pendingKeys[s]
         ok   == processStateTry(site, TRUE) = "returns"
     IN  /\ pend # <<>>
         /\ site = "setItem" => Range(pend) \cap persistedKeys[s] # {}
         /\ site = "replaceState" => urlKeys[s] # {}
         /\ store' = IF site = "setItem" THEN store
                      ELSE Persist(store, s, pend, value[s])
         /\ url' = IF urlKeys[s] # {}
                       /\ (site = "listener" \/ (site = "setItem" /\ ok))
                    THEN syncUrlFromState(url, s, value[s]) ELSE url
         /\ pendingKeys' = IF ok THEN [pendingKeys EXCEPT ![s] = <<>>]
                            ELSE pendingKeys
         /\ mq' = IF ok /\ s = "prefs" THEN Append(mq, Finish(stEl[s])) ELSE mq
         /\ flushLog' = flushLog \o <<LogEntry("throw", site, <<>>, FALSE)>>
                           \o (IF ok \/ site = "listener"
                               THEN <<LogEntry("update", s, pend, FALSE)>>
                               ELSE <<>>)
         /\ todo' = IF ok THEN Tail(todo) ELSE <<>>
         /\ pc' = IF ok THEN pc ELSE "idle"
         /\ draining' = IF ok THEN draining ELSE (mq # <<>>)
  /\ nops' = nops + 1
  /\ UNCHANGED <<value, changed, renderQueued, toRun, hpc, thread, written,
                 wcount, flushWrites, touched, lateWritten, expected,
                 noDepAtSnap, schedCalls>>
  /\ UNCHANGED <<GraphVars, DomVars>>
  /\ UNCHANGED PeripheralVars

\* runBinding(b) whose update() throws after its first k dereferences
RunBindingThrows(k) ==
  /\ pc = "runBindingsFor"
  /\ toRun # <<>>
  /\ nops < MaxOps
  /\ LET b    == Head(toRun)
         refs == BindingRefs(b, value)
         ok   == runBindingTry(TRUE) = "returns"
         g    == RecordRefs(ClearDeps([bd |-> bindingDeps, db |-> depBindings], b),
                            b, SubSeq(refs, 1, k), registered, removed)
     IN  /\ k <= Len(refs)
         /\ bindingDeps' = g.bd
         /\ depBindings' = g.db
         /\ flushLog' = flushLog \o <<LogEntry("run", b, <<>>, FALSE),
                                      LogEntry("throw", "update()", <<>>, FALSE)>>
         /\ toRun' = IF ok THEN Tail(toRun) ELSE <<>>
         /\ pc' = IF ok THEN pc ELSE "idle"
         /\ draining' = IF ok THEN draining ELSE (mq # <<>>)
  /\ nops' = nops + 1
  /\ UNCHANGED <<value, pendingKeys, changed, renderQueued, mq, todo, hpc,
                 thread, written, wcount, flushWrites, touched, lateWritten,
                 expected, noDepAtSnap, schedCalls>>
  /\ UNCHANGED <<DomVars, MirrorVars>>
  /\ UNCHANGED PeripheralVars

\* a page of handlers that assign and return, whose flushes meet exceptions
FaultNext ==
  \/ \E h \in Handlers : HandlerStart(h)
  \/ \E h \in Handlers, key \in Keys : \E v \in ValsOf(key) :
       HandlerWrite(h, key, v)
  \/ \E h \in Handlers : HandlerEnd(h)
  \/ FinishTask
  \/ FlushBegin
  \/ ProcessStateQuiet
  \/ \E site \in Sites : ProcessStateThrows(site)
  \/ FlushStatesEnd
  \/ Snapshot
  \/ RunBindingQuiet
  \/ \E k \in 0..2 : RunBindingThrows(k)
  \/ RunBindingsEnd
  \/ FlushEnd
  \/ ObserverTask

FaultSpec ==
  Init /\ [][FaultNext]_vars

\* ------------------------------------------------------------ source engine
MaxFetch ==
  2

\* the bodies and stream frames the server sends
Texts ==
  {"", "null", "[]", "[1]", "<html>"}

ParseError ==
  [t |-> "SyntaxError", n |-> 0]

\* JSON.parse on those texts
JSONparse(s) ==
  CASE s = "null" -> Null
    [] s = "[]"   -> Arr(0)
    [] s = "[1]"  -> Arr(1)
    [] OTHER      -> ParseError

\* utils.parseJSON
parseJSON(s) ==
  IF s = "" THEN Null ELSE JSONparse(s)

\* updateEmptySlot of initSrc
updateEmptySlot(s) ==
  [s EXCEPT !.hidden.empty =
     ~(s.status = "ready" /\ s.value \in {Undefined, Null, Arr(0)})]

updateStatus_onlyFromIdle(s, status) ==
  IF status = "loading" /\ s.status # "idle" THEN s
  ELSE updateEmptySlot([s EXCEPT !.status = status,
                                 !.hidden.loading = (status # "loading"),
                                 !.hidden.error = (status # "error")])

\* updateStatus of initSrc, on the source object
updateStatus(s, status) ==
  updateEmptySlot([s EXCEPT !.status = status,
                            !.hidden.loading = (status # "loading"),
                            !.hidden.error = (status # "error")])

\* the failure path shared by fetchHttpSource, openStream and
\* handleStreamMessage: record the error, switch the status
SrcFail_clearValue(s, type) ==
  updateStatus([s EXCEPT !.error = type, !.value = Undefined], "error")

SrcFail(s, type) ==
  updateStatus([s EXCEPT !.error = type], "error")

Failed ==
  [t |-> "failed", n |-> 0]

\* what fetchHttpSource writes once its response has been read: result is the
\* parsed body, or Failed for a non-2xx status, a rejection or a bad body
HttpSettle_keepError(s, result) ==
  IF result = Failed
  THEN SrcFail(s, "network")
  ELSE updateStatus([s EXCEPT !.value = result], "ready")

HttpSettle(s, result) ==
  IF result = Failed
  THEN SrcFail(s, "network")
  ELSE [updateStatus([s EXCEPT !.value = result], "ready")
          EXCEPT !.error = NoError]

\* closeStream
closeStream(o) ==
  IF o.s.io = "none" THEN o
  ELSE [o EXCEPT !.s.io = "none", !.ev = Append(@, "close")]

\* openStream; ok = FALSE: the EventSource / WebSocket constructor throws
openStream(o, ok) ==
  IF ~ok
  THEN [s |-> SrcFail(o.s, "connection"), ev |-> Append(o.ev, "error"),
        failed |-> TRUE, dirty |-> TRUE, sched |-> TRUE]
  ELSE IF o.s.kind = "sse"
  THEN [s |-> updateStatus([o.s EXCEPT !.io = "open"], "ready"),
        ev |-> Append(o.ev, "open"),
        failed |-> FALSE, dirty |-> TRUE, sched |-> FALSE]
  ELSE [o EXCEPT !.s.io = "connecting"]

\* handleStreamMessage
handleStreamMessage(s, data) ==
  LET v == IF data = "" THEN Null ELSE JSONparse(data)
  IN  IF v = ParseError
      THEN [s |-> SrcFail(s, "format"), ev |-> <<"message", "error">>,
            failed |-> TRUE, dirty |-> TRUE, sched |-> TRUE]
      ELSE [s |-> [s EXCEPT !.value = v], ev |-> <<"message", "update">>,
            failed |-> FALSE, dirty |-> TRUE, sched |-> TRUE]

\* the outcome of a step that has done nothing yet
Untouched(s) ==
  [s |-> s, ev |-> <<>>, failed |-> FALSE, dirty |-> FALSE, sched |-> FALSE]

\* the core variables no source operation touches
SrcFrame ==
  <<draining, hpc, thread, written, nops, touched, FlushVars, GraphVars,
    DomVars, MirrorVars>>

\* one source operation with outcome o takes effect: the source object, the
\* events it dispatched, registry.changed.add(src) and scheduleRender()
SrcStep(o, obs) ==
  /\ src' = o.s
  /\ srcObs' = [obs EXCEPT !.events = o.ev, !.failed = o.failed,
                           !.before = src.value]
  /\ LET c1 == IF o.dirty THEN [Cur EXCEPT !.changed = SetAdd(@, "feed")]
               ELSE Cur
     IN  Commit(IF o.sched THEN scheduleRender(c1) ELSE c1)
  /\ UNCHANGED <<SrcFrame, ListVars, AuxVars>>

\* initSrc for <jtx-src name="feed" url=...>; the url's scheme gives the
\* kind, and setupFetchModes opens a stream at once
initSrc(kind, ok) ==
  /\ ExternalOK
  /\ src.kind = "none"
  /\ LET o == [Untouched([NoSrc EXCEPT !.kind = kind]) EXCEPT !.ev = <<"init">>]
     IN  SrcStep(IF kind = "http" THEN o ELSE openStream(o, ok), srcObs)
  /\ UNCHANGED fetches

\* refreshSource on an HTTP source: fetchHttpSource up to `await fetch(...)`
refreshHttp ==
  /\ ExternalOK
  /\ src.kind = "http"
  /\ srcObs.issued < MaxFetch
  /\ SrcStep([s |-> updateStatus(src, "loading"), ev |-> <<"fetch">>,
              failed |-> FALSE, dirty |-> TRUE, sched |-> TRUE],
             [srcObs EXCEPT !.issued = @ + 1, !.raced = FALSE])
  /\ fetches' = Append(fetches, [id |-> srcObs.issued + 1, stage |-> "fetch"])

\* refreshSource on a stream: reopenStream
refreshStream(ok) ==
  /\ ExternalOK
  /\ src.kind \in {"sse", "ws"}
  /\ SrcStep(openStream(closeStream(Untouched(src)), ok), srcObs)
  /\ UNCHANGED fetches

\* the i-th suspended fetchHttpSource leaves the list of calls in flight
Settle(i, result, cause) ==
  LET s1 == HttpSettle(src, result)
  IN  /\ SrcStep([s |-> s1,
                  ev |-> IF result = Failed THEN <<"error">> ELSE <<"update">>,
                  failed |-> result = Failed, dirty |-> TRUE, sched |-> TRUE],
                 [srcObs EXCEPT !.done = @ + 1, !.cause = cause,
                                !.raced = Len(fetches) > 1,
                                !.last = [id |-> fetches[i].id,
                                          status |-> IF result = Failed
                                                     THEN "error" ELSE "ready",
                                          error |-> IF result = Failed
                                                    THEN "network" ELSE NoError,
                                          value |-> result]])
      /\ fetches' = [k \in 1..(Len(fetches) - 1) |->
                       IF k < i THEN fetches[k] ELSE fetches[k + 1]]

\* `await fetch(url)` settles: a 2xx response, another status, or a rejection
FetchSettles(i, outcome) ==
  /\ ExternalOK
  /\ i \in 1..Len(fetches)
  /\ fetches[i].stage = "fetch"
  /\ IF outcome = "ok"
     THEN /\ fetches' = [fetches EXCEPT ![i].stage = "text"]
          /\ SrcStep(Untouched(src), srcObs)
     ELSE Settle(i, Failed, outcome)

\* `await res.text()` settles with the body
TextSettles(i, text) ==
  /\ ExternalOK
  /\ i \in 1..Len(fetches)
  /\ fetches[i].stage = "text"
  /\ IF parseJSON(text) = ParseError THEN Settle(i, Failed, "body")
     ELSE Settle(i, parseJSON(text), "none")

\* the WebSocket's `open` event
WsOpen ==
  /\ ExternalOK
  /\ src.kind = "ws"
  /\ src.io = "connecting"
  /\ SrcStep([s |-> updateStatus([src EXCEPT !.io = "open"], "ready"),
              ev |-> <<"open">>, failed |-> FALSE, dirty |-> TRUE,
              sched |-> FALSE], srcObs)
  /\ UNCHANGED fetches

\* a `message` event of the EventSource or the WebSocket
StreamMessage(data) ==
  /\ ExternalOK
  /\ src.kind \in {"sse", "ws"}
  /\ src.io = "open"
  /\ SrcStep(handleStreamMessage(src, data), srcObs)
  /\ UNCHANGED fetches

\* an `error` event of the EventSource or the WebSocket
StreamError ==
  /\ ExternalOK
  /\ src.kind \in {"sse", "ws"}
  /\ src.io # "none"
  /\ SrcStep([s |-> SrcFail(src, "connection"), ev |-> <<"error">>,
              failed |-> TRUE, dirty |-> TRUE, sched |-> TRUE], srcObs)
  /\ UNCHANGED fetches

SrcNext ==
  \/ \E kind \in {"http", "sse", "ws"}, ok \in BOOLEAN : initSrc(kind, ok)
  \/ refreshHttp
  \/ \E ok \in BOOLEAN : refreshStream(ok)
  \/ \E i \in 1..MaxFetch, outcome \in {"ok", "status", "reject"} :
       FetchSettles(i, outcome)
  \/ \E i \in 1..MaxFetch, text \in Texts : TextSettles(i, text)
  \/ WsOpen
  \/ \E data \in Texts : StreamMessage(data)
  \/ StreamError
  \/ FlushBegin
  \/ ProcessState
  \/ FlushStatesEnd
  \/ Snapshot
  \/ RunBindingsEnd
  \/ FlushEnd

SrcSpec ==
  Init /\ [][SrcNext]_vars

\* ------------------------------------------------------------- list engine
\* One <jtx-insert for="item in @feed" key="..."> whose <jtx-template> is a
\* direct child.  A batch is the sequence of the values the key expression
\* yields for the entries of the evaluated `for` expression.
\* entries and runs of update the list goes through, counted together
MaxWork ==
  5

MaxWindow ==
  2

\* the key expression evaluated to null or undefined
KeyNull ==
  "<null>"

KeyResults ==
  {"a", "b", "", KeyNull}

\* the batches of at most `room` entries; without a key attribute the key
\* expression yields nothing
Batches(keyExpr, room) ==
  UNION {[1..n -> IF keyExpr THEN KeyResults ELSE {KeyNull}] : n \in 0..room}

\* the strategy attribute, split into tokens
Strategies ==
  {{"replace"}, {"append"}, {"prepend"}, {"append", "merge"},
   {"prepend", "merge"}}

isReplaceStrategy(t) ==
  "replace" \in t \/ t \cap {"append", "prepend", "merge"} = {}

isMergeStrategy(t) ==
  "merge" \in t

isPrependOnly(t) ==
  "prepend" \in t /\ "merge" \notin t

prependMode(t) ==
  "prepend" \in t /\ "append" \notin t

\* child nodes: the template, a whitespace text node, a rendered item
\* (fresh: built by the latest run of update)
Tpl ==
  [tag |-> "jtx-template", key |-> "", fresh |-> FALSE]

Txt ==
  [tag |-> "#text", key |-> "", fresh |-> FALSE]

Item(k, f) ==
  [tag |-> "item", key |-> k, fresh |-> f]

\* markup of the element before jtx runs: items rendered ahead of time, the
\* template, and whitespace after it or not
Markups ==
  {pre \o tail : pre \in {<<>>, <<Item("a", FALSE), Item("a", FALSE)>>},
                 tail \in {<<Tpl>>, <<Tpl, Txt>>}}

toStr(v) ==
  IF v = KeyNull THEN "" ELSE v

IdxStr(i) ==
  <<"0", "1", "2", "3", "4", "5", "6", "7", "8", "9">>[i + 1]

isSpecialNode(n) ==
  n.tag = "jtx-template"

\* el.children holds elements only
IsItem(n) ==
  n.tag # "#text" /\ ~isSpecialNode(n)

Where(ch, Test(_)) ==
  LET at(i) == Test(ch[i])
  IN  SelectSeq([i \in 1..Len(ch) |-> i], at)

currentItemNodes(ch) ==
  Where(ch, IsItem)

ItemKeys(ch) ==
  [i \in 1..Len(currentItemNodes(ch)) |-> ch[currentItemNodes(ch)[i]].key]

Without(ch, gone) ==
  LET stays(i) == i \notin gone
      keep == SelectSeq([i \in 1..Len(ch) |-> i], stays)
  IN  [j \in 1..Len(keep) |-> ch[keep[j]]]

InsertAt(ch, i, nodes) ==
  SubSeq(ch, 1, i - 1) \o nodes \o SubSeq(ch, i, Len(ch))

insertBeforeSpecial(ch, nodes) ==
  LET special == Where(ch, isSpecialNode)
  IN  IF special # <<>> THEN InsertAt(ch, special[1], nodes) ELSE ch \o nodes

insertAtStart(ch, node) ==
  LET t == Where(ch, isSpecialNode)[1]
  IN  IF t < Len(ch) THEN InsertAt(ch, t + 1, <<node>>)
      ELSE insertBeforeSpecial(ch, <<node>>)

Rev(s) ==
  [i \in 1..Len(s) |-> s[Len(s) + 1 - i]]

trimWindowNodes_alwaysTail(ch, windowSize, fromEnd) ==
  LET items == currentItemNodes(ch)
      hit == Rev(SubSeq(items, windowSize + 1, Len(items)))
  IN  IF windowSize = 0 \/ Len(items) <= windowSize
        THEN [children |-> ch, removedKeys |-> <<>>]
        ELSE [children |-> Without(ch, {hit[i] : i \in 1..Len(hit)}),
              removedKeys |-> [i \in 1..Len(hit) |-> ch[hit[i]].key]]

trimWindowNodes(ch, windowSize, fromEnd) ==
  LET items == currentItemNodes(ch)
      excess == Len(items) - windowSize
      hit == IF fromEnd THEN Rev(SubSeq(items, windowSize + 1, Len(items)))
             ELSE SubSeq(items, 1, excess)
  IN  IF windowSize = 0 \/ Len(items) <= windowSize
        THEN [children |-> ch, removedKeys |-> <<>>]
        ELSE [children |-> Without(ch, {hit[i] : i \in 1..Len(hit)}),
              removedKeys |-> [i \in 1..Len(hit) |-> ch[hit[i]].key]]

\* the child the key -> node map holds for key k
NodeOf(ch, k) ==
  LET holds(n) == IsItem(n) /\ n.key = k
      found == Where(ch, holds)
  IN  IF found = <<>> THEN {} ELSE {found[1]}

FirstOnly(s) ==
  LET first(i) == \A j \in 1..(i - 1) : s[j] # s[i]
      keep == SelectSeq([i \in 1..Len(s) |-> i], first)
  IN  [j \in 1..Len(keep) |-> s[keep[j]]]

seedMergeStateFromDOMOnce(m) ==
  LET existing == currentItemNodes(m.children)
      dup == {existing[i] : i \in {i \in 1..Len(existing) :
                \E j \in 1..(i - 1) :
                   m.children[existing[j]].key = m.children[existing[i]].key}}
      order == FirstOnly(ItemKeys(m.children))
  IN  IF m.order # <<>> \/ m.map # {} THEN m
      ELSE [m EXCEPT !.children = Without(m.children, dup), !.order = order,
                     !.map = {order[i] : i \in 1..Len(order)}]

trimWindowMerge_keepNodes(m, windowSize) ==
  LET n == Len(m.order)
      removedKeys == IF m.prepend THEN Rev(SubSeq(m.order, windowSize + 1, n))
                     ELSE SubSeq(m.order, 1, n - windowSize)
  IN  IF windowSize = 0 \/ n <= windowSize
        THEN [m EXCEPT !.removedKeys = <<>>]
        ELSE [m EXCEPT !.order = IF m.prepend THEN SubSeq(m.order, 1, windowSize)
                                 ELSE SubSeq(m.order, n - windowSize + 1, n),
                       !.removedKeys = removedKeys]

trimWindowMerge(m, windowSize) ==
  LET n == Len(m.order)
      removedKeys == IF m.prepend THEN Rev(SubSeq(m.order, windowSize + 1, n))
                     ELSE SubSeq(m.order, 1, n - windowSize)
      gone == {removedKeys[i] : i \in 1..Len(removedKeys)}
      nodes == UNION {NodeOf(m.children, k) : k \in gone}
  IN  IF windowSize = 0 \/ n <= windowSize
        THEN [m EXCEPT !.removedKeys = <<>>]
        ELSE [m EXCEPT !.children = Without(m.children, nodes),
                       !.order = IF m.prepend THEN SubSeq(m.order, 1, windowSize)
                                 ELSE SubSeq(m.order, n - windowSize + 1, n),
                       !.map = m.map \ gone,
                       !.removedKeys = removedKeys]

computeKey(idx, result, keyExpr) ==
  IF keyExpr /\ result # KeyNull THEN result ELSE IdxStr(idx)

\* the key string of every entry of the batch
DerivedKeys(batch, keyExpr) ==
  [i \in 1..Len(batch) |-> toStr(computeKey(i - 1, batch[i], keyExpr))]

\* the validation loops: a null, undefined or empty key, or a repeated one
InvalidBatch(batch, keyExpr) ==
  \E i \in 1..Len(batch) :
     LET rawKey == computeKey(i - 1, batch[i], keyExpr)
     IN  \/ rawKey = KeyNull
         \/ toStr(rawKey) = ""
         \/ \E j \in 1..(i - 1) :
               DerivedKeys(batch, keyExpr)[j] = toStr(rawKey)

Ev(type, keys) ==
  [type |-> type, keys |-> keys]

Fired(cond, type, keys) ==
  IF cond THEN <<Ev(type, keys)>> ELSE <<>>

Outcome(ins, ch, events) ==
  [insert |-> ins, children |-> ch, events |-> events]

\* init / add / update / empty at the end of every branch
Finalize(ins, ch, count, head, tail) ==
  Outcome([ins EXCEPT !.prevCount = count,
                      !.initFired = ins.initFired \/ count > 0],
          ch,
          head \o Fired(~ins.initFired /\ count > 0, "init", <<>>) \o tail \o
            Fired(count = 0 /\ ins.prevCount # 0, "empty", <<>>))

FreshItems(keys) ==
  [i \in 1..Len(keys) |-> Item(keys[i], TRUE)]

updateReplace_addFirst(ins, ch, keys) ==
  LET current == currentItemNodes(ch)
      removedKeys == ItemKeys(ch)
      after == insertBeforeSpecial(Without(ch, {current[i] : i \in 1..Len(current)}),
                                   FreshItems(keys))
  IN  Finalize(ins, after, Len(currentItemNodes(after)), <<>>,
               Fired(keys # <<>>, "add", keys) \o
               Fired(removedKeys # <<>>, "remove", removedKeys))

updateReplace(ins, ch, keys) ==
  LET current == currentItemNodes(ch)
      removedKeys == ItemKeys(ch)
      after == insertBeforeSpecial(Without(ch, {current[i] : i \in 1..Len(current)}),
                                   FreshItems(keys))
  IN  Finalize(ins, after, Len(currentItemNodes(after)), <<>>,
               Fired(removedKeys # <<>>, "remove", removedKeys) \o
               Fired(keys # <<>>, "add", keys))

RECURSIVE insertEach(_, _, _)
insertEach(ch, keys, atStart) ==
  IF keys = <<>> THEN ch
  ELSE IF atStart
    THEN insertEach(insertAtStart(ch, Item(keys[Len(keys)], TRUE)),
                    SubSeq(keys, 1, Len(keys) - 1), atStart)
    ELSE insertEach(insertBeforeSpecial(ch, <<Item(keys[1], TRUE)>>),
                    Tail(keys), atStart)

updateAppendPrepend(ins, ch, keys) ==
  LET fromEnd == isPrependOnly(ins.strategy)
      trimmed == trimWindowNodes(insertEach(ch, keys, fromEnd), ins.window, fromEnd)
  IN  Finalize(ins, trimmed.children, Len(currentItemNodes(trimmed.children)),
               Fired(trimmed.removedKeys # <<>>, "remove", trimmed.removedKeys),
               Fired(keys # <<>>, "add", IF fromEnd THEN Rev(keys) ELSE keys))

mergeEntry_evict(m, k) ==
  IF k \in m.map
    THEN [m EXCEPT !.children = [i \in 1..Len(m.children) |->
                                   IF i \in NodeOf(m.children, k)
                                     THEN Item(k, TRUE) ELSE m.children[i]],
                   !.updated = Append(m.updated, k)]
    ELSE [m EXCEPT !.children =
                      insertBeforeSpecial(
                        Without(m.children,
                                {i \in 1..Len(m.children) :
                                   IsItem(m.children[i]) /\ ~m.children[i].fresh}),
                        <<Item(k, TRUE)>>),
                   !.order = <<k>>,
                   !.map = {k},
                   !.added = Append(m.added, k)]

\* one turn of the merge loop, for incoming key k
mergeEntry(m, k) ==
  IF k \in m.map
    THEN [m EXCEPT !.children = [i \in 1..Len(m.children) |->
                                   IF i \in NodeOf(m.children, k)
                                     THEN Item(k, TRUE) ELSE m.children[i]],
                   !.updated = Append(m.updated, k)]
  ELSE IF m.prepend
    THEN [m EXCEPT !.queue = Append(m.queue, k)]
    ELSE [m EXCEPT !.children = insertBeforeSpecial(m.children, <<Item(k, TRUE)>>),
                   !.order = Append(m.order, k),
                   !.map = m.map \cup {k},
                   !.added = Append(m.added, k)]

RECURSIVE mergeLoop(_, _)
mergeLoop(m, incoming) ==
  IF incoming = <<>> THEN m
  ELSE mergeLoop(mergeEntry(m, Head(incoming)), Tail(incoming))

\* newPrependQueue, inserted in reverse
flushPrependQueue(m) ==
  [m EXCEPT !.children = insertEach(m.children, m.queue, TRUE),
            !.order = m.queue \o m.order,
            !.map = m.map \cup {m.queue[i] : i \in 1..Len(m.queue)},
            !.added = Rev(m.queue)]

mergeFinish(ins, m) ==
  Finalize([ins EXCEPT !.order = m.order, !.map = m.map], m.children,
           Len(m.order),
           Fired(m.removedKeys # <<>>, "remove", m.removedKeys),
           Fired(m.added # <<>>, "add", m.added) \o
           Fired(m.updated # <<>>, "update", m.updated))

mergeEmptyBatch(ins, m) ==
  Outcome([ins EXCEPT !.order = <<>>, !.map = {}, !.prevCount = 0],
          Without(m.children, UNION {NodeOf(m.children, m.order[i]) :
                                       i \in 1..Len(m.order)}),
          Fired(m.order # <<>>, "remove", m.order) \o
          Fired(m.order # <<>>, "empty", <<>>))

updateMerge(ins, ch, batch) ==
  LET seeded == seedMergeStateFromDOMOnce(
                  [children |-> ch, order |-> ins.order, map |-> ins.map,
                   prepend |-> prependMode(ins.strategy), removedKeys |-> <<>>,
                   added |-> <<>>, updated |-> <<>>, queue |-> <<>>])
      incoming == FirstOnly(DerivedKeys(batch, ins.keyExpr))
  IN  IF batch = <<>> THEN mergeEmptyBatch(ins, seeded)
      ELSE IF InvalidBatch(batch, ins.keyExpr)
        THEN Outcome([ins EXCEPT !.order = seeded.order, !.map = seeded.map],
                     seeded.children, <<Ev("error", <<>>)>>)
      ELSE mergeFinish(ins, trimWindowMerge(
                              flushPrependQueue(mergeLoop(seeded, incoming)),
                              ins.window))

isAppendOnly(t) ==
  "append" \in t /\ "merge" \notin t

update(ins, ch, batch) ==
  IF /\ isReplaceStrategy(ins.strategy) \/ isAppendOnly(ins.strategy)
                                        \/ isPrependOnly(ins.strategy)
     /\ ins.keyExpr
     /\ InvalidBatch(batch, ins.keyExpr)
    THEN Outcome(ins, ch, <<Ev("error", <<>>)>>)
  ELSE IF isReplaceStrategy(ins.strategy)
    THEN updateReplace(ins, ch, DerivedKeys(batch, ins.keyExpr))
  ELSE IF ~isMergeStrategy(ins.strategy)
    THEN updateAppendPrepend(ins, ch, DerivedKeys(batch, ins.keyExpr))
  ELSE updateMerge(ins, ch, batch)

\* every node that was there before this run of update is an old one
Aged(ch) ==
  [i \in 1..Len(ch) |-> [ch[i] EXCEPT !.fresh = FALSE]]

ListRun(ins, ch, batch) ==
  LET out == update(ins, Aged(ch), batch)
  IN  /\ insert' = out.insert
      /\ children' = out.children
      /\ listObs' = [before |-> Aged(ch), was |-> ins, batch |-> batch,
                     events |-> out.events,
                     n |-> listObs.n + Len(batch) + 1]

ListStep(ins, ch, batch) ==
  /\ ListRun(ins, ch, batch)
  /\ UNCHANGED <<CoreVars, SrcVars, AuxVars>>

\* bindInsertList reads the attributes and runs the binding once
bindInsertList(strategy, window, keyExpr, markup) ==
  /\ insert = NoInsert
  /\ \E batch \in Batches(keyExpr, MaxWork - 1) :
        ListStep([NoInsert EXCEPT !.strategy = strategy, !.window = window,
                                  !.keyExpr = keyExpr],
                 markup, batch)

\* the binding reruns because the list expression's dependency changed
ListUpdate ==
  /\ insert # NoInsert
  /\ listObs.n < MaxWork
  /\ \E batch \in Batches(insert.keyExpr, MaxWork - 1 - listObs.n) :
        ListStep(insert, children, batch)

ListNext ==
  \/ \E strategy \in Strategies, window \in 0..MaxWindow, keyExpr \in BOOLEAN,
        markup \in Markups :
        bindInsertList(strategy, window, keyExpr, markup)
  \/ ListUpdate

ListSpec ==
  Init /\ [][ListNext]_vars

\* ------------------------------------------- a list over a key of a state
\* bindInsertList for `for="e in @feed.items"`: the first run of update reads
\* @feed through $ref, which records the state as the binding's dependency
FeedBind(strategy, window, markup) ==
  /\ insert = NoInsert
  /\ ListRun([NoInsert EXCEPT !.strategy = strategy, !.window = window],
             markup, feed.items)
  /\ feed' = [feed EXCEPT !.dep = TRUE]
  /\ UNCHANGED <<CoreVars, SrcVars, BootVars, ExprVars, NestVars, KeyVars,
                 RegVars, OnVars>>

\* makeStateRef.set: `@feed.items = batch` or `@feed.other = n`
FeedWrite(key, v) ==
  /\ feed.n < MaxFeed
  /\ feed' = [feed EXCEPT ![key] = v,
                          !.pendingKeys = @ \cup {key},
                          !.changed = TRUE,
                          !.n = @ + 1]
  /\ UNCHANGED <<CoreVars, SrcVars, ListVars, BootVars, ExprVars, NestVars,
                 KeyVars, RegVars, OnVars>>

\* the render microtask: flushStateUpdates, then runBindingsFor(changed)
\* reruns the list binding when depBindings has it under the state
FeedFlush ==
  /\ feed.changed
  /\ feed' = [feed EXCEPT !.flushed = feed.pendingKeys,
                          !.pendingKeys = {},
                          !.changed = FALSE]
  /\ IF feed.dep
     THEN ListRun(insert, children, feed.items)
     ELSE UNCHANGED ListVars
  /\ UNCHANGED <<CoreVars, SrcVars, BootVars, ExprVars, NestVars, KeyVars,
                 RegVars, OnVars>>

FeedNext ==
  \/ \E strategy \in {{"append"}, {"prepend"}}, window \in 0..MaxWindow,
        markup \in Markups :
        FeedBind(strategy, window, markup)
  \/ \E batch \in Batches(FALSE, 2) : FeedWrite("items", batch)
  \/ \E n \in 0..1 : FeedWrite("other", n)
  \/ FeedFlush

FeedSpec ==
  Init /\ [][FeedNext]_vars

\* ------------------------------------------------------------- initState
\* execute(value, ...) threw
Thrown ==
  [t |-> "throw", n |-> 0]

\* a query value that is not JSON, kept as the raw string
Str ==
  [t |-> "str", n |-> 0]

\* what the attribute expressions of a key evaluate to
AttrOutcomes ==
  {Missing, Thrown, Num(0)}

\* what localStorage.getItem returns for a persisted key
StoredTexts ==
  {NoEntry, "1", "<html>"}

\* the text of a parameter in location.search
QueryTexts ==
  {Absent, "{\"p\":0}", "abc"}

\* restore snapshots createNodeFor passes
Snapshots ==
  {NoState, [NoState EXCEPT !["k"] = Obj(1)]}

\* JSON.parse on the texts the store and the query hold
JSONparseValue(s) ==
  IF \E v \in Nums \cup Objs \cup {Null} : JSONstringify(v) = s
    THEN CHOOSE v \in Nums \cup Objs \cup {Null} : JSONstringify(v) = s
    ELSE ParseError

\* parseUrlParams: JSON.parse, else the raw string
parseUrlParams(q) ==
  IF JSONparseValue(q) = ParseError THEN Str ELSE JSONparseValue(q)

AttrLoop_dropKey(attrs) ==
  [value |-> [key \in Keys |->
                IF attrs[key] = Thrown THEN Missing ELSE attrs[key]],
   events |-> SelectSeq(<<"k", "q">>, LAMBDA key : attrs[key] = Thrown)]

\* the attribute loop: st.value and the `error` events it fires
AttrLoop(attrs) ==
  [value |-> [key \in Keys |->
                IF attrs[key] = Thrown THEN Undefined ELSE attrs[key]],
   events |-> SelectSeq(<<"k", "q">>, LAMBDA key : attrs[key] = Thrown)]

\* the persist loop, for the stored text of key k
PersistLoop(c, persist, stored) ==
  IF "k" \notin persist \/ stored = NoEntry THEN c
  ELSE IF JSONparseValue(stored) = ParseError
    THEN [c EXCEPT !.events = Append(c.events, "k")]
    ELSE [c EXCEPT !.value["k"] = JSONparseValue(stored)]

UrlLoop_keepExisting(c, persistUrl, query) ==
  IF "k" \in persistUrl /\ query # Absent /\ c.value["k"] = Missing
    THEN [c EXCEPT !.value["k"] = parseUrlParams(query)]
    ELSE c

\* the persist-url loop, for the query text of key k
UrlLoop(c, persistUrl, query) ==
  IF "k" \in persistUrl /\ query # Absent
    THEN [c EXCEPT !.value["k"] = parseUrlParams(query)]
    ELSE c

\* the restore loop over Object.entries(restored)
RestoreLoop(c, restore) ==
  [c EXCEPT !.value = [key \in Keys |->
                         IF restore[key] # Missing THEN restore[key]
                         ELSE c.value[key]]]

initState_noDuplicateCheck(b, o) ==
  LET st == RestoreLoop(
        UrlLoop(PersistLoop(AttrLoop(o.attrs), o.persist, o.stored),
                o.persistUrl, o.query),
        o.restore)
  IN  [states |-> IF o.register THEN [b.states EXCEPT ![o.name] = o.el]
                 ELSE b.states,
      scopedStates |-> IF o.register THEN b.scopedStates
                       ELSE b.scopedStates \cup {o.el},
      jtxState |-> [b.jtxState EXCEPT ![o.el] = o.name],
      value |-> [b.value EXCEPT ![o.el] = st.value],
      events |-> [b.events EXCEPT ![o.el] =
                    [i \in 1..Len(st.events) |-> "error"] \o <<"init">>]]

initState(b, o) ==
  LET st == RestoreLoop(
              UrlLoop(PersistLoop(AttrLoop(o.attrs), o.persist, o.stored),
                      o.persistUrl, o.query),
              o.restore)
  IN  IF o.register /\ b.states[o.name] # None THEN b
      ELSE [states |-> IF o.register THEN [b.states EXCEPT ![o.name] = o.el]
                       ELSE b.states,
            scopedStates |-> IF o.register THEN b.scopedStates
                             ELSE b.scopedStates \cup {o.el},
            jtxState |-> [b.jtxState EXCEPT ![o.el] = o.name],
            value |-> [b.value EXCEPT ![o.el] = st.value],
            events |-> [b.events EXCEPT ![o.el] =
                          [i \in 1..Len(st.events) |-> "error"] \o <<"init">>]]

BootStep(o) ==
  /\ o.el \notin bootObs.tried
  /\ o.el = "second" => "first" \in bootObs.tried
  /\ boot' = initState(boot, o)
  /\ bootObs' = [o EXCEPT !.before = boot,
                          !.tried = bootObs.tried \cup {o.el}]
  /\ UNCHANGED <<CoreVars, SrcVars, ListVars, ExprVars, NestVars, KeyVars, RegVars, OnVars, FeedVars>>

\* the inputs of one call: the element's attributes and what the store and
\* the query hold for key k.  The first element may list k in persist and
\* persist-url, the second has neither attribute.
Calls(register, restores) ==
  {o \in {[NoBootObs EXCEPT !.el = "first", !.name = name,
                            !.register = register,
                            !.attrs = [NoState EXCEPT !["k"] = ak, !["q"] = aq],
                            !.persist = p, !.persistUrl = u,
                            !.stored = st, !.query = q, !.restore = r] :
             name \in Names, ak \in AttrOutcomes, aq \in {Thrown, Num(0)},
             p \in {{}, {"k"}}, u \in {{}, {"k"}}, st \in StoredTexts,
             q \in QueryTexts, r \in restores} :
      /\ o.persist # {} \/ o.stored # "<html>"
      /\ o.persistUrl # {} \/ o.query # "abc"}
  \cup
  {[NoBootObs EXCEPT !.el = "second", !.name = name, !.register = register,
                     !.attrs = [NoState EXCEPT !["k"] = ak, !["q"] = aq],
                     !.restore = r] :
     name \in Names, ak \in AttrOutcomes, aq \in {Thrown, Num(0)},
     r \in restores}

\* bindAll: initState(st) for a <jtx-state> outside every template
bindAll ==
  \E o \in Calls(TRUE, {NoState}) : BootStep(o)

\* createNodeFor: initState(stEl, locals, {register: false, restore})
createNodeFor ==
  \E o \in Calls(FALSE, Snapshots) : BootStep(o)

BootNext ==
  \/ bindAll
  \/ createNodeFor

BootSpec ==
  Init /\ [][BootNext]_vars

\* ------------------------------------------------------------- expressions
\* An expression is a sequence of characters.  The alphabet has the string
\* delimiter, the reference sigil, a letter, a digit and a dot.
MaxExpr ==
  4
Quote ==
  "'"
ExprChars ==
  {Quote, "@", "b", "1", "."}
Codes ==
  UNION {[1..n -> ExprChars] : n \in 0..MaxExpr}

\* REF_RE = /@([a-zA-Z_][\w$]*)/g
isIdentStart(c) ==
  c = "b"
isIdentPart(c) ==
  c \in {"b", "1"}

\* the length of the longest run of identifier characters of s from i on
RECURSIVE identRun(_, _)
identRun(s, i) ==
  IF i <= Len(s) /\ isIdentPart(s[i]) THEN 1 + identRun(s, i + 1) ELSE 0

\* 'ctx.$ref("$1")'
refCall(ident) ==
  <<"c", "t", "x", ".", "$", "r", "e", "f", "(", "\"">> \o ident \o <<"\"", ")">>

\* String(expr).replace(REF_RE, ...): every match, left to right
RECURSIVE replaceAll(_, _)
replaceAll(s, i) ==
  IF i > Len(s) THEN <<>>
  ELSE IF s[i] = "@" /\ i < Len(s) /\ isIdentStart(s[i + 1])
    THEN LET n == identRun(s, i + 1) IN
         refCall(SubSeq(s, i + 1, i + n)) \o replaceAll(s, i + 1 + n)
  ELSE <<s[i]>> \o replaceAll(s, i + 1)

preprocessExpr(code) ==
  replaceAll(code, 1)

\* a single-quoted string literal without escapes
isStringLiteral(s) ==
  /\ Len(s) >= 2
  /\ s[1] = Quote
  /\ s[Len(s)] = Quote
  /\ \A i \in 2..(Len(s) - 1) : s[i] # Quote
literalText(s) ==
  SubSeq(s, 2, Len(s) - 1)

\* execute(code, ctx, extra, true): new Function(..., `return ( ${src} );`).
\* Only string literals are evaluated here; any other source text gives
\* the value `NotLiteral`.
NotLiteral ==
  [t |-> "other", chars |-> <<>>]
execute(code) ==
  LET text == preprocessExpr(code) IN
  IF isStringLiteral(text) THEN [t |-> "string", chars |-> literalText(text)]
  ELSE NotLiteral

\* bindText: update() evaluates the jtx-text expression
bindText ==
  /\ expr.site = "none"
  /\ \E code \in Codes :
    /\ expr' = [site |-> "text", code |-> code, v |-> execute(code)]
    /\ UNCHANGED <<CoreVars, SrcVars, ListVars, BootVars, NestVars, KeyVars, RegVars, OnVars, FeedVars>>

\* initState: the attribute loop evaluates a default
stateDefault ==
  /\ expr.site = "none"
  /\ \E code \in Codes :
    /\ expr' = [site |-> "state", code |-> code, v |-> execute(code)]
    /\ UNCHANGED <<CoreVars, SrcVars, ListVars, BootVars, NestVars, KeyVars, RegVars, OnVars, FeedVars>>

ExprNext ==
  \/ bindText
  \/ stateDefault

ExprSpec ==
  Init /\ [][ExprNext]_vars

\* ------------------------------------------------------- nested bindings
MaxRefs ==
  3

\* runBinding(b) from a flush or from bindAll, up to the call of b.update()
RunTop(b) ==
  /\ updating = <<>>
  /\ b = ListBinding \/ b \in nestObs.created
  /\ currentBinding' = b
  /\ nestDeps' = ClearDeps(nestDeps, b)
  /\ updating' = <<b>>
  /\ nestObs' = [nestObs EXCEPT !.reads = {r \in @ : r[1] # b}]
  /\ UNCHANGED <<CoreVars, SrcVars, ListVars, BootVars, ExprVars, KeyVars, RegVars, OnVars, FeedVars>>

\* the list's update() is in createNodeFor: compileTemplateOnce meets a
\* jtx-text attribute without locals and bindText runs the new binding
RunNested(b) ==
  /\ updating = <<ListBinding>>
  /\ b \in ItemBindings \ nestObs.created
  /\ currentBinding' = b
  /\ nestDeps' = ClearDeps(nestDeps, b)
  /\ updating' = Append(updating, b)
  /\ nestObs' = [nestObs EXCEPT !.created = @ \cup {b}]
  /\ UNCHANGED <<CoreVars, SrcVars, ListVars, BootVars, ExprVars, KeyVars, RegVars, OnVars, FeedVars>>

\* ctx.$ref(name) resolves to definition d inside the innermost update()
Ref(d) ==
  /\ updating # <<>>
  /\ nestObs.n < MaxRefs
  /\ nestDeps' = IF currentBinding = None THEN nestDeps
                 ELSE recordDependency(nestDeps, currentBinding, d)
  /\ nestObs' = [nestObs EXCEPT
                   !.reads = @ \cup {<<updating[Len(updating)], d>>},
                   !.n = @ + 1]
  /\ UNCHANGED <<currentBinding, updating>>
  /\ UNCHANGED <<CoreVars, SrcVars, ListVars, BootVars, ExprVars, KeyVars, RegVars, OnVars, FeedVars>>

\* binding.update() returns and runBinding resets currentBinding
UpdateReturns ==
  /\ updating # <<>>
  /\ updating' = SubSeq(updating, 1, Len(updating) - 1)
  /\ currentBinding' = None
  /\ UNCHANGED <<nestDeps, nestObs>>
  /\ UNCHANGED <<CoreVars, SrcVars, ListVars, BootVars, ExprVars, KeyVars, RegVars, OnVars, FeedVars>>

NestNext ==
  \/ \E b \in NestBindings : RunTop(b)
  \/ \E b \in ItemBindings : RunNested(b)
  \/ \E d \in Defs : Ref(d)
  \/ UpdateReturns

NestSpec ==
  Init /\ [][NestNext]_vars

\* ---------------------------------------------------------- key spellings
\* st.keyMap has one entry at most here: every spelling has the same lower
\* case
\* ensureStateKey(st, raw)
ensureStateKey(st, raw) ==
  IF st.keyMap = None THEN [st EXCEPT !.keyMap = raw] ELSE st

\* resolveKey of makeStateRef
resolveKey(st, prop) ==
  IF st.keyMap # None THEN st.keyMap ELSE prop

\* the get trap of the state reference: `@s.prop`
refGet(st, prop) ==
  st.value[resolveKey(st, prop)]

\* the set trap of the state reference: `@s.prop = v`
refSet(st, prop, v) ==
  LET key == resolveKey(st, prop)
  IN  [st EXCEPT !.keyMap = key, !.value[key] = v,
                 !.pendingKeys = @ \cup {key}]

\* bindModel.pull for jtx-model="@s.prop": deepGet(st.value, key)
pull(st, prop) ==
  st.value[prop]

\* bindModel.push for jtx-model="@s.prop"
push(st, prop, v) ==
  [st EXCEPT !.value[prop] = v, !.pendingKeys = @ \cup {prop}]

\* initState's attribute loop defines the key under the attribute's name
KeyDefault(raw, v) ==
  /\ keyed = NoKeyed
  /\ keyed' = [ensureStateKey(keyed, raw) EXCEPT !.value[raw] = v]
  /\ keyedObs' = [path |-> "attribute", prop |-> raw, v |-> v]
  /\ UNCHANGED <<CoreVars, SrcVars, ListVars, BootVars, ExprVars, NestVars, RegVars, OnVars, FeedVars>>

\* handler code assigns through the reference
KeyRefSet(prop, v) ==
  /\ keyed' = refSet(keyed, prop, v)
  /\ keyedObs' = [path |-> "reference", prop |-> prop, v |-> v]
  /\ UNCHANGED <<CoreVars, SrcVars, ListVars, BootVars, ExprVars, NestVars, RegVars, OnVars, FeedVars>>

\* the control of a model binding is edited
KeyModelPush(prop, v) ==
  /\ keyed' = push(keyed, prop, v)
  /\ keyedObs' = [path |-> "model", prop |-> prop, v |-> v]
  /\ UNCHANGED <<CoreVars, SrcVars, ListVars, BootVars, ExprVars, NestVars, RegVars, OnVars, FeedVars>>

KeyNext ==
  \/ \E raw \in Spellings, v \in Nums : KeyDefault(raw, v)
  \/ \E prop \in Spellings, v \in Nums : KeyRefSet(prop, v)
  \/ \E prop \in Spellings, v \in Nums : KeyModelPush(prop, v)

KeySpec ==
  Init /\ [][KeyNext]_vars

\* ------------------------------------------------- definition lifecycle
\* the cleanup initState registers: delete the name if still its holder
stateCleanup(reg, el, name) ==
  IF reg.states[name] = el THEN [reg EXCEPT !.states[name] = None] ELSE reg

\* the cleanup initSrc registers: timers, observer, stream; not the registry
srcCleanup(reg, el, name) ==
  reg

\* initState(el) / initSrc(el) for an element that enters the page
DefInit(el, name) ==
  /\ defEls[el].stage = "none"
  /\ IF registry[kindOf(el)][name] # None
     THEN /\ defEls' = [defEls EXCEPT ![el] = [name |-> name, stage |-> "ignored"]]
          /\ UNCHANGED registry
     ELSE /\ defEls' = [defEls EXCEPT ![el] = [name |-> name, stage |-> "live"]]
          /\ registry' = [registry EXCEPT ![kindOf(el)][name] = el]
  /\ UNCHANGED <<CoreVars, SrcVars, ListVars, BootVars, ExprVars, NestVars, KeyVars, OnVars, FeedVars>>

\* the element leaves the tree and the observer runs its cleanup functions
\* (an ignored element has none)
DefRemoved(el) ==
  /\ defEls[el].stage \in {"live", "ignored"}
  /\ defEls' = [defEls EXCEPT ![el].stage = "gone"]
  /\ registry' = IF defEls[el].stage = "ignored" THEN registry
              ELSE IF kindOf(el) = "states"
                THEN stateCleanup(registry, el, defEls[el].name)
                ELSE srcCleanup(registry, el, defEls[el].name)
  /\ UNCHANGED <<CoreVars, SrcVars, ListVars, BootVars, ExprVars, NestVars, KeyVars, OnVars, FeedVars>>

RegNext ==
  \/ \E el \in DefEls, name \in DefNames : DefInit(el, name)
  \/ \E el \in DefEls : DefRemoved(el)

RegSpec ==
  Init /\ [][RegNext]_vars

\* ------------------------------------------------------- jtx-on attribute
SINGLE_QUOTE ==
  "'"
DOUBLE_QUOTE ==
  "\""
\* the back-tick character, written out (the character itself ends a string here)
BACKTICK ==
  "backtick"
BACKSLASH ==
  "\\"

\* String.prototype.trim
RECURSIVE trim(_)
trim(s) ==
  IF s = <<>> THEN s
  ELSE IF Head(s) = " " THEN trim(Tail(s))
  ELSE IF s[Len(s)] = " " THEN trim(SubSeq(s, 1, Len(s) - 1))
  ELSE s

\* the scanning loop of splitTopLevel and findTopLevelColon: the index of the
\* first delimiter outside quotes and brackets at or after i, 0 if none
RECURSIVE scanTopLevel(_, _, _, _, _, _)
scanTopLevel(s, i, depth, quote, escape, delimiter) ==
  IF i > Len(s) THEN 0
  ELSE LET ch == s[i] IN
    IF quote # None
    THEN IF escape THEN scanTopLevel(s, i + 1, depth, quote, FALSE, delimiter)
         ELSE IF ch = BACKSLASH
           THEN scanTopLevel(s, i + 1, depth, quote, TRUE, delimiter)
         ELSE IF ch = quote
           THEN scanTopLevel(s, i + 1, depth, None, FALSE, delimiter)
         ELSE IF quote = BACKTICK /\ ch = "$" /\ i < Len(s) /\ s[i + 1] = "{"
           THEN scanTopLevel(s, i + 2, depth + 1, quote, FALSE, delimiter)
         ELSE scanTopLevel(s, i + 1, depth, quote, FALSE, delimiter)
    ELSE IF ch \in {SINGLE_QUOTE, DOUBLE_QUOTE, BACKTICK}
      THEN scanTopLevel(s, i + 1, depth, ch, escape, delimiter)
    ELSE IF ch \in {"(", "[", "{"}
      THEN scanTopLevel(s, i + 1, depth + 1, quote, escape, delimiter)
    ELSE IF ch \in {")", "]", "}"}
      THEN scanTopLevel(s, i + 1, IF depth > 0 THEN depth - 1 ELSE depth,
                        quote, escape, delimiter)
    ELSE IF ch = delimiter /\ depth = 0 THEN i
    ELSE scanTopLevel(s, i + 1, depth, quote, escape, delimiter)

\* splitTopLevel: after a delimiter the loop is outside quotes at depth 0
RECURSIVE splitFrom(_, _, _)
splitFrom(s, start, delimiter) ==
  LET i == scanTopLevel(s, start, 0, None, FALSE, delimiter)
      part == trim(SubSeq(s, start, IF i = 0 THEN Len(s) ELSE i - 1))
      head == IF part # <<>> THEN <<part>> ELSE <<>>
  IN  IF i = 0 THEN head ELSE head \o splitFrom(s, i + 1, delimiter)

splitTopLevel(s, delimiter) ==
  IF s = <<>> THEN <<>> ELSE splitFrom(s, 1, delimiter)

\* 0 stands for the -1 of the code (indices start at 1)
findTopLevelColon(segment) ==
  scanTopLevel(segment, 1, 0, None, FALSE, ":")

\* the loop of parseOnAttribute over the segments
RECURSIVE parseSegments(_, _)
parseSegments(segments, out) ==
  IF segments = <<>> THEN out
  ELSE LET trimmed == trim(Head(segments))
           idx == findTopLevelColon(trimmed)
           event == trim(SubSeq(trimmed, 1, idx - 1))
           code == trim(SubSeq(trimmed, idx + 1, Len(trimmed)))
           last == out[Len(out)]
           next ==
             IF trimmed = <<>> THEN out
             ELSE IF idx = 0
               THEN IF out = <<>> THEN out
                    ELSE [out EXCEPT ![Len(out)].code =
                            IF last.code # <<>>
                            THEN last.code \o <<";", " ">> \o trimmed
                            ELSE trimmed]
             ELSE IF event = <<>> THEN out
             ELSE Append(out, [event |-> event, code |-> code])
       IN  parseSegments(Tail(segments), next)

parseOnAttribute(s) ==
  IF s = <<>> \/ trim(s) = <<>> THEN <<>>
  ELSE SelectSeq(parseSegments(splitTopLevel(s, ";"), <<>>),
                 LAMBDA entry : entry.code # <<>> /\ trim(entry.code) # <<>>)

\* the attribute text of the clauses, as an author writes them
RECURSIVE attrText(_)
attrText(clauses) ==
  IF clauses = <<>> THEN <<>>
  ELSE LET c == Head(clauses)
           one == IF c.event = None THEN c.code
                  ELSE <<c.event, ":", " ">> \o c.code
       IN  IF Len(clauses) = 1 THEN one
           ELSE one \o <<";", " ">> \o attrText(Tail(clauses))

\* the author adds a clause: `event: code`, or code alone after the first
OnWrite(ev, code) ==
  /\ ~onAttr.parsed
  /\ Len(onAttr.clauses) < MaxClauses
  /\ onAttr.clauses = <<>> => ev # None
  /\ onAttr' = [onAttr EXCEPT !.clauses = Append(@, [event |-> ev, code |-> code])]
  /\ UNCHANGED <<CoreVars, SrcVars, ListVars, BootVars, ExprVars, NestVars, KeyVars, RegVars, FeedVars>>

\* bindOn(el, expr): const pairs = parseOnAttribute(expr)
bindOn ==
  /\ ~onAttr.parsed
  /\ onAttr.clauses # <<>>
  /\ onAttr' = [onAttr EXCEPT !.parsed = TRUE,
                              !.out = parseOnAttribute(attrText(onAttr.clauses))]
  /\ UNCHANGED <<CoreVars, SrcVars, ListVars, BootVars, ExprVars, NestVars, KeyVars, RegVars, FeedVars>>

OnNext ==
  \/ \E ev \in OnEvents \cup {None}, code \in OnCodes : OnWrite(ev, code)
  \/ bindOn

OnSpec ==
  Init /\ [][OnNext]_vars

\* ------------------------------------------------------------------ claims
Active ==
  Range(registered) \cup Range(scopedStates)

LogIdx(t) ==
  {i \in 1..Len(flushLog) : flushLog[i].t = t}

UpdatesOf(s) ==
  {i \in LogIdx("update") : flushLog[i].who = s}

RunsOf(b) ==
  {i \in LogIdx("run") : flushLog[i].who = b}

Occurrences(seq, x) ==
  Cardinality({i \in 1..Len(seq) : seq[i] = x})

RendersQueued ==
  Occurrences(mq, Render)

\* C1 (as stated): after every flush pendingKeys is empty for every state,
\* registered or scoped.
C1_PendingEmptyAfterFlush ==
  pc = "done" => \A s \in Active : pendingKeys[s] = <<>>

\* C1 (amended): after every flush the pendingKeys of every registered or
\* scoped state hold only keys that were written during that flush after the
\* state had been visited; without such a write the set is empty.
C1_PendingOnlyLateWrites ==
  pc = "done" =>
    \A s \in Active : \A key \in Range(pendingKeys[s]) : <<s, key>> \in lateWritten

C1_Witness ==
  /\ pc = "done"
  /\ UpdatesOf("inner") # {}
  /\ UpdatesOf("outer") # {}
  /\ \A s \in Active : pendingKeys[s] = <<>>

\* C2: in one flush exactly the bindings attached to the definitions in the
\* snapshot of `changed` are run, each exactly once, and a binding that had
\* no dependency is never run.
C2_AffectedBindingsRunOnce ==
  /\ \A b \in Bindings :
       /\ Cardinality(RunsOf(b)) <= 1
       /\ RunsOf(b) # {} => b \in expected /\ b \notin noDepAtSnap
  /\ pc = "done" => \A b \in expected : Cardinality(RunsOf(b)) = 1

C2_Witness ==
  /\ pc = "done"
  /\ Cardinality(LogIdx("update")) >= 2
  /\ Cardinality(expected) >= 2
  /\ noDepAtSnap # {}
  /\ "tPrefs" \in expected
  /\ Len(bindingDeps["tPrefs"]) = 2

\* C3: at most one render microtask is pending, and any number of
\* scheduleRender() calls since the last flush leave exactly one pending.
C3_OneRenderPending ==
  /\ RendersQueued <= 1
  /\ renderQueued <=> RendersQueued = 1
  /\ schedCalls >= 1 => RendersQueued = 1

C3_Witness ==
  /\ schedCalls >= 2
  /\ RendersQueued = 1

\* C4: within a flush every durable-store write, URL rewrite and `update`
\* event precedes the first binding update.
C4_MirrorsBeforeBindings ==
  \A i \in LogIdx("run") :
    \A j \in LogIdx("persist") \cup LogIdx("url") \cup LogIdx("update") : j < i

C4_Witness ==
  /\ pc = "done"
  /\ LogIdx("persist") # {}
  /\ LogIdx("url") # {}
  /\ LogIdx("update") # {}
  /\ LogIdx("run") # {}

\* C5 (as stated): no binding that depends on a state a handler has written
\* runs between the handler's first write and the handler's completion.
C5_NoBindingSeesPartialHandler ==
  \A i \in LogIdx("run") : ~flushLog[i].torn

\* C6: the dependency graph is bidirectionally consistent: D is in
\* bindingDeps[B] exactly when B is in depBindings[D].
C6_GraphConsistent ==
  \A b \in Bindings : \A d \in States :
    d \in Range(bindingDeps[b]) <=> b \in Range(depBindings[d])

C6_Witness ==
  /\ bindingDeps["tPrefs"] = <<"prefs", "outer">>
  /\ "tPrefs" \in Range(depBindings["outer"])

\* C7 (as stated): after one or more writes to a key of a state between two
\* flushes, the next flush dispatches exactly one `update` event for that
\* state whose keys list holds the key exactly once.
C7_OneUpdatePerFlush ==
  pc = "done" =>
    \A s \in States : \A key \in Keys :
      flushWrites[s][key] >= 1 =>
        /\ Cardinality(UpdatesOf(s)) = 1
        /\ \A i \in UpdatesOf(s) : Occurrences(flushLog[i].keys, key) = 1

\* C8 (as stated): after every flush, a persisted key that a handler
\* assignment (to the key or to a property under it) or a model binding has
\* changed has its JSON serialization in the durable store.
C8_StoreMirrorsPersistedKeys ==
  pc = "done" =>
    \A s \in States : \A key \in persistedKeys[s] :
      <<s, key>> \in touched =>
        store[StoreKey(stName[s], key)] = JSONstringify(value[s][key])

UrlMirrors(s, key) ==
  IF value[s][key] = Null
  THEN url[key] = Absent
  ELSE url[key] = JSONstringify(value[s][key])

\* C9 (as stated): after every flush that processed a write to a state, each
\* URL-persisted key of that state is mirrored in the query string: present
\* with the JSON of a non-null value, absent for null.
C9_UrlMirrorsAfterFlush ==
  pc = "done" =>
    \A s \in States : UpdatesOf(s) # {} =>
      \A key \in urlKeys[s] : UrlMirrors(s, key)

\* C9 (amended): the same, for every URL-persisted key that was not written
\* again during that flush after the state had been visited.
C9_UrlMirrorsUnlessLateWrite ==
  pc = "done" =>
    \A s \in States : UpdatesOf(s) # {} =>
      \A key \in urlKeys[s] : <<s, key>> \notin lateWritten => UrlMirrors(s, key)

C9_Witness ==
  /\ pc = "done"
  /\ UpdatesOf("outer") # {}
  /\ lateWritten = {}
  /\ value["outer"]["q"] = Null
  /\ url["q"] = Absent
  /\ store[StoreKey("ui", "k")] # NoEntry

InnerScope ==
  {e \in Elements : isWithinScope(e, "stInner", removed)}

\* C10: inside the element of the scoped state named like an outer state,
\* every reference to the name resolves to the scoped state, and a write
\* through such a reference changes no key of the outer state and marks it
\* neither pending nor changed.
C10_ScopedStateShadowsOuter ==
  /\ [](/\ \A e \in InnerScope :
            resolveState("ui", e, registered, removed) = "inner"
        /\ Range(bindingDeps["tInner"]) = {"inner"})
  /\ [][\A h \in Handlers \cap InnerScope : \A key \in Keys : \A v \in ValsOf(key) :
          HandlerWrite(h, key, v) =>
            /\ value'["outer"] = value["outer"]
            /\ pendingKeys'["outer"] = pendingKeys["outer"]
            /\ "outer" \in Range(changed') => "outer" \in Range(changed)
            /\ value'["inner"][key] = v
            /\ key \in Range(pendingKeys'["inner"])]_vars

C10_Witness ==
  /\ value["inner"] # InitValue["inner"]
  /\ "q" \in Range(pendingKeys["inner"])
  /\ "inner" \in Range(changed)
  /\ value["outer"] = InitValue["outer"]
  /\ "outer" \notin Range(changed)

\* a reference to `name` at element e is answered from the global registry
\* (no marked ancestor carries the name)
RegistryHit(e, name) ==
  /\ findNearestLocalState(e, name, removed) = None
  /\ resolveState(name, e, registered, removed) # None

\* C11 (as stated): connected or not, an element gets the globally
\* registered state for a name only if it is the state's element or one of
\* its descendants.
C11_RegistryOnlyForDescendants ==
  \A e \in Elements : \A name \in Names :
    RegistryHit(e, name) =>
      isWithinScope(e, stEl[resolveState(name, e, registered, removed)], removed)

\* C11 (amended): an element that is connected to the document gets the
\* globally registered state for a name only if it is the state's element or
\* one of its descendants; otherwise the reference is an empty object and a
\* write through it leaves every state's value, pendingKeys and the changed
\* set untouched.
C11_RegistryOnlyForConnectedDescendants ==
  /\ [](\A e \in Elements : \A name \in Names :
          isConnected(e, removed) /\ RegistryHit(e, name) =>
            isWithinScope(e, stEl[resolveState(name, e, registered, removed)],
                          removed))
  /\ [][\A h \in Handlers : \A key \in Keys : \A v \in ValsOf(key) :
          /\ HandlerWrite(h, key, v)
          /\ isConnected(h, removed)
          /\ ~isWithinScope(h, "stOuter", removed)
          => /\ value' = value
             /\ pendingKeys' = pendingKeys
             /\ changed' = changed]_vars

C11_Witness ==
  /\ thread = "aside"
  /\ nops = 1
  /\ schedCalls = 1
  /\ resolveState("ui", "aside", registered, removed) = None
  /\ RegistryGet(registered, "ui") = "outer"

\* C12 (as stated): for a source of any kind the loading slot is visible iff
\* status is loading, the error slot iff status is error, and the empty slot
\* iff status is ready and value is null, undefined or an empty array.
C12_SlotsMatchStatus ==
  src.kind # "none" =>
    /\ ~src.hidden.loading <=> src.status = "loading"
    /\ ~src.hidden.error <=> src.status = "error"
    /\ ~src.hidden.empty <=>
         (src.status = "ready" /\ src.value \in {Undefined, Null, Arr(0)})

\* C13: every failed source operation (non-2xx response, rejected fetch,
\* unparseable body, unparseable stream message, connection error) sets
\* status to error, populates error, fires `error` and leaves value as it was
\* immediately before.
C13_FailureKeepsValue ==
  srcObs.failed =>
    /\ src.status = "error"
    /\ src.error # NoError
    /\ "error" \in Range(srcObs.events)
    /\ src.value = srcObs.before

C13_Witness ==
  /\ srcObs.failed
  /\ src.kind = "http"
  /\ src.value = Arr(1)
  /\ src.status = "error"
  /\ fetches = <<>>

\* C14: a refresh cancels no fetch that is in flight, and once all have
\* completed, status and error (and value, when that response carried one)
\* are those written by the response that completed last, whatever the order
\* of issue.
C14_LastResponseWins ==
  /\ srcObs.issued = Len(fetches) + srcObs.done
  /\ (src.kind = "http" /\ fetches = <<>> /\ srcObs.done >= 1) =>
       /\ src.status = srcObs.last.status
       /\ src.error = srcObs.last.error
       /\ srcObs.last.value # Failed => src.value = srcObs.last.value

C14_Witness ==
  /\ fetches = <<>>
  /\ srcObs.done >= 2
  /\ srcObs.last.id = 1
  /\ src.status = "ready"
  /\ src.value = Arr(1)

\* C15: after every update of a merge-strategy list with window N, at most
\* N item nodes are rendered and the DOM order of the item nodes equals the
\* order of the internal key list.
C15_MergeWindowAndOrder ==
  (listObs.n > 0 /\ isMergeStrategy(insert.strategy) /\ insert.window > 0)
    => /\ Len(currentItemNodes(children)) <= insert.window
       /\ ItemKeys(children) = insert.order

\* the events of one type the last run of update fired, by position
EventsOf(type) ==
  {i \in 1..Len(listObs.events) : listObs.events[i].type = type}

EventKeys(type) ==
  UNION {{listObs.events[i].keys[j] : j \in 1..Len(listObs.events[i].keys)} :
           i \in EventsOf(type)}

Rendered(ch) ==
  {ch[i] : i \in {i \in 1..Len(ch) : IsItem(ch[i])}}

\* C16 (as stated): when an update has dispatched `remove` with keys K, no
\* item node whose key is in K is rendered.
C16_RemovedKeysAbsent ==
  \A node \in Rendered(children) : node.key \notin EventKeys("remove")

\* C16 (amended): under a merge strategy no item node whose key is in K is
\* rendered; under replace a key in K is rendered only by a node built from
\* the new batch; under append and prepend the removed nodes are gone (one
\* node fewer per removed key) although another node may carry the key.
C16_RemovedKeysAbsentOrRebuilt ==
  EventsOf("remove") # {} =>
    IF isMergeStrategy(insert.strategy)
      THEN \A node \in Rendered(children) : node.key \notin EventKeys("remove")
    ELSE IF isReplaceStrategy(insert.strategy)
      THEN \A node \in Rendered(children) :
              node.key \in EventKeys("remove") => node.fresh
    ELSE \A i \in EventsOf("remove") :
            Len(currentItemNodes(children)) =
              Len(currentItemNodes(listObs.before)) + Len(listObs.batch)
                - Len(listObs.events[i].keys)

\* a merge list trimmed its window and still shows items
C16_Witness ==
  /\ isMergeStrategy(insert.strategy)
  /\ listObs.batch # <<>>
  /\ "a" \in EventKeys("remove")
  /\ Rendered(children) # {}

\* C17: within one list update `remove` is dispatched before `add` and
\* before `update`; for replace it carries every key rendered before the
\* update and is followed by `add` for the new set (no `add` when the new
\* set is empty).
C17_RemoveBeforeAddAndUpdate ==
  /\ \A i \in EventsOf("remove"), j \in EventsOf("add") \cup EventsOf("update") :
        i < j
  /\ (isReplaceStrategy(insert.strategy) /\ EventsOf("remove") # {}) =>
       \E i \in EventsOf("remove") :
          /\ listObs.events[i].keys = ItemKeys(listObs.before)
          /\ IF listObs.batch = <<>> THEN EventsOf("add") = {}
             ELSE /\ i + 1 \in EventsOf("add")
                  /\ listObs.events[i + 1].keys = ItemKeys(children)

\* a replace list that showed items renders another batch
C17_Witness ==
  /\ isReplaceStrategy(insert.strategy)
  /\ insert.keyExpr
  /\ "a" \in EventKeys("remove")
  /\ "b" \in EventKeys("add")
  /\ listObs.n > Len(listObs.batch) + 1

\* the last run of update met a batch in which two entries derive the same
\* key string or one derives the empty string
DuplicateOrEmptyKey ==
  LET keys == DerivedKeys(listObs.batch, listObs.was.keyExpr)
  IN  \E i \in 1..Len(keys) :
         keys[i] = "" \/ \E j \in 1..(i - 1) : keys[j] = keys[i]

\* C18: for a list with a key expression, a batch with a duplicate or empty
\* derived key fires `error` and nothing else, and leaves the rendered item
\* nodes and the internal merge state as they were before the update.
C18_BadKeysAbortUntouched ==
  (listObs.n > 0 /\ insert.keyExpr /\ DuplicateOrEmptyKey) =>
    /\ listObs.events = <<Ev("error", <<>>)>>
    /\ children = listObs.before
    /\ insert = listObs.was

\* C19: for a list with a key expression, a batch in which the key
\* expression yields null or undefined for some item fires `error` and
\* leaves the rendered item nodes unchanged.
C19_NullKeyAborts ==
  (listObs.n > 0 /\ insert.keyExpr
     /\ \E i \in 1..Len(listObs.batch) : listObs.batch[i] = KeyNull) =>
    /\ EventsOf("error") # {}
    /\ children = listObs.before

\* every key rendered before the last run of update and not in its batch is
\* still rendered by the node it had, or is among the trimmed keys
AbsentKeysRetained(trimmed) ==
  LET keys == DerivedKeys(listObs.batch, listObs.was.keyExpr)
  IN  \A old \in Rendered(listObs.before) :
         (\A i \in 1..Len(keys) : keys[i] # old.key) =>
            \/ old.key \in trimmed
            \/ Item(old.key, FALSE) \in Rendered(children)

NameTaken ==
  /\ bootObs.el # None
  /\ bootObs.before.states[bootObs.name] # None

LaterIgnored ==
  /\ boot.states[bootObs.name] = bootObs.before.states[bootObs.name]
  /\ boot.value[boot.states[bootObs.name]] =
       bootObs.before.value[boot.states[bootObs.name]]
  /\ boot.jtxState[bootObs.el] = None
  /\ boot.events[bootObs.el] = <<>>

\* C21 (as stated): a state element initialised with a name that is already
\* registered is ignored: the registry still maps the name to the first
\* state, whose value is unchanged, and the later element gets no state
\* marker and fires no `init`.
C21_DuplicateIgnored ==
  NameTaken => LaterIgnored

\* C21 (amended): the same for an element initialised for registration; a
\* scoped state of a list item is set up under a registered name.
C21_RegisteringDuplicateIgnored ==
  /\ (NameTaken /\ bootObs.register) => LaterIgnored
  /\ (NameTaken /\ ~bootObs.register) =>
       /\ boot.states = bootObs.before.states
       /\ boot.jtxState[bootObs.el] = bootObs.name

C21_Witness ==
  /\ bootObs.register
  /\ bootObs.el = "second"
  /\ bootObs.name = "ui"
  /\ bootObs.before.states["ui"] = "first"
  /\ bootObs.attrs["k"] = Num(0)

\* the last call of initState went past the duplicate check and the
\* expression of attribute `key` threw
AttrThrew(key) ==
  /\ bootObs.el # None
  /\ ~(bootObs.register /\ NameTaken)
  /\ bootObs.attrs[key] = Thrown

\* a later step of that call writes the key: the store, the query or the
\* restore snapshot
Supplied(key) ==
  /\ key = "k"
  /\ \/ bootObs.restore[key] # Missing
     \/ key \in bootObs.persistUrl /\ bootObs.query # Absent
     \/ /\ key \in bootObs.persist
        /\ bootObs.stored # NoEntry
        /\ JSONparseValue(bootObs.stored) # ParseError

ErrorThenInit(key) ==
  LET fired == boot.events[bootObs.el]
  IN  /\ fired # <<>>
      /\ fired[1] = "error"
      /\ fired[Len(fired)] = "init"
      /\ \A other \in Keys \ {key} :
            bootObs.attrs[other] \in Nums =>
              boot.value[bootObs.el][other] # Missing

\* C22 (as stated): when one attribute expression throws during
\* initialisation, `error` fires, the key is in the value as undefined, the
\* other attributes are evaluated, the state is registered and fires `init`.
C22_ThrowingAttributeIsUndefined ==
  \A key \in Keys : AttrThrew(key) =>
     /\ ErrorThenInit(key)
     /\ boot.value[bootObs.el][key] = Undefined
     /\ boot.states[bootObs.name] = bootObs.el

\* C22 (amended): the key is undefined unless the store, the query or the
\* restore snapshot supplies it, and a scoped state joins the scoped set
\* instead of the registry.
C22_ThrowingAttributeDoesNotAbort ==
  \A key \in Keys : AttrThrew(key) =>
     /\ ErrorThenInit(key)
     /\ boot.value[bootObs.el][key] # Missing
     /\ ~Supplied(key) => boot.value[bootObs.el][key] = Undefined
     /\ IF bootObs.register THEN boot.states[bootObs.name] = bootObs.el
        ELSE bootObs.el \in boot.scopedStates

C22_Witness ==
  /\ bootObs.register
  /\ bootObs.attrs = [k |-> Thrown, q |-> Num(0)]
  /\ boot.value[bootObs.el] = [k |-> Undefined, q |-> Num(0)]
  /\ boot.events[bootObs.el] = <<"error", "init">>
  /\ boot.states[bootObs.name] = bootObs.el

\* the value each source of the last call holds for key k
FromQuery ==
  CASE bootObs.query = "{\"p\":0}" -> Obj(0)
    [] bootObs.query = "abc" -> Str
    [] OTHER -> Missing

FromStore ==
  IF bootObs.stored = "1" THEN Num(1) ELSE Missing

FromAttribute(key) ==
  IF bootObs.attrs[key] = Thrown THEN Undefined ELSE bootObs.attrs[key]

\* C23: after initialisation the value of each key is the restore
\* snapshot's if it supplies the key; else the query's if the key is in
\* persist-url and in the query; else the store's if the key is in persist
\* and the stored text parses; else the attribute default.
C23_ValuePrecedence ==
  (bootObs.el # None /\ ~(bootObs.register /\ NameTaken)) =>
    /\ boot.value[bootObs.el]["k"] =
         IF bootObs.restore["k"] # Missing THEN bootObs.restore["k"]
         ELSE IF "k" \in bootObs.persistUrl /\ FromQuery # Missing
           THEN FromQuery
         ELSE IF "k" \in bootObs.persist /\ FromStore # Missing
           THEN FromStore
         ELSE FromAttribute("k")
    /\ boot.value[bootObs.el]["q"] = FromAttribute("q")

\* the store and the query both hold k, and the attribute gives a default
C23_Witness ==
  /\ bootObs.el = "first"
  /\ bootObs.attrs["k"] = Num(0)
  /\ bootObs.persist = {"k"} /\ bootObs.stored = "1"
  /\ bootObs.persistUrl = {"k"} /\ bootObs.query = "{\"p\":0}"
  /\ bootObs.restore = NoState
  /\ boot.value["first"]["k"] = Obj(0)

\* C24: the error recorded after a failed HTTP fetch tells the failure: a
\* 2xx response whose body is not JSON gives kind `format`, a non-2xx
\* response and a rejected fetch give kind `network`.
C24_ErrorKindByFailure ==
  (src.kind = "http" /\ srcObs.failed) =>
    src.error = IF srcObs.cause = "body" THEN "format" ELSE "network"

\* C30 (as stated): whenever at least one HTTP request of the source is in
\* flight, also when refreshes overlap, the status is `loading`.
C30_LoadingWhileInFlight ==
  (src.kind = "http" /\ fetches # <<>>) => src.status = "loading"

\* C30 (amended): ... unless another request of the source has completed
\* since the latest request was issued.
C30_LoadingUntilFirstCompletion ==
  (src.kind = "http" /\ fetches # <<>> /\ ~srcObs.raced) =>
    src.status = "loading"

\* two refreshes overlap and neither request has completed
C30_Witness ==
  /\ src.kind = "http"
  /\ Len(fetches) = 2
  /\ srcObs.issued = 2
  /\ ~srcObs.raced
  /\ src.status = "loading"

\* C25: an `@` inside a string literal is plain text: evaluating a string
\* literal, as a text binding or as a state default, yields the characters
\* between its quotes.
C25_AtInLiteralIsText ==
  (expr.site # "none" /\ isStringLiteral(expr.code)) =>
    expr.v = [t |-> "string", chars |-> literalText(expr.code)]

\* render microtasks waiting in the host's queue
QueuedRenders(q) ==
  Cardinality({i \in 1..Len(q) : q[i] = Render})

\* C26: a write by a binding's update during the reruns of a flush starts no
\* nested flush and is not lost: the flush goes on with its reruns, the
\* written state is in `changed`, exactly one render microtask is queued, and
\* a state leaves `changed` only at the snapshot of a flush, which reruns
\* all its dependents.
C26_BindingWriteDeferred ==
  [][/\ (pc = "runBindingsFor" /\ nops' # nops) =>
          /\ pc' = "runBindingsFor"
          /\ toRun' = Tail(toRun)
          /\ flushLog' = Append(flushLog, flushLog'[Len(flushLog')])
          /\ flushLog'[Len(flushLog')].t = "run"
          /\ resolveState("ui", bindingEl[Head(toRun)], registered, removed)
                \in Range(changed')
          /\ renderQueued'
          /\ QueuedRenders(mq') = 1
     /\ \A d \in Range(changed) \ Range(changed') :
          /\ pc = "snapshot"
          /\ Range(depBindings[d]) \subseteq Range(toRun')]_vars

\* a binding wrote during the reruns of the flush that is in progress
C26_Witness ==
  /\ pc = "runBindingsFor"
  /\ changed # <<>>
  /\ renderQueued
  /\ QueuedRenders(mq) = 1
  /\ \E i \in 1..Len(flushLog) : flushLog[i].t = "run"

Quiescent(states) ==
  /\ changed = <<>>
  /\ \A s \in states : pendingKeys[s] = <<>>
  /\ ~renderQueued
  /\ QueuedRenders(mq) = 0

\* C27: when no binding update and no listener writes, the page always comes
\* back, after finitely many flushes, to a state in which `changed` is empty,
\* every state's pendingKeys is empty and no render microtask is queued.
C27_ReachesQuiescence ==
  []<>Quiescent(States)

\* C28: every mutation of a state's value by handler code, through an
\* assignment to a top-level key or to a nested path, records the top-level
\* key in the state's pendingKeys and adds the state to `changed`.
C28_HandlerMutationRecorded ==
  [][\A s \in States, key \in Keys :
       (thread # None /\ value'[s][key] # value[s][key]) =>
         /\ key \in Range(pendingKeys'[s])
         /\ s \in Range(changed')]_vars

\* C29: every definition read through a reference while a binding's update
\* is executing is a dependency of that binding, also when the read comes
\* after the update created and ran a nested binding.
C29_ReadsAreDependencies ==
  \A r \in nestObs.reads :
    /\ r[2] \in Range(nestDeps.bd[r[1]])
    /\ r[1] \in Range(nestDeps.db[r[2]])

\* C31: on a stream source, once a message that parses has been received
\* (also after an unparseable message or a connection error) the status is
\* `ready` and `error` is null.
C31_GoodMessageClearsError ==
  (src.kind \in {"sse", "ws"} /\ srcObs.events = <<"message", "update">>) =>
    (src.status = "ready" /\ src.error = NoError)

\* the last n elements of s, and the first n; all of s without a window
LastN(s, n) ==
  IF n = 0 \/ Len(s) <= n THEN s ELSE SubSeq(s, Len(s) - n + 1, Len(s))

FirstN(s, n) ==
  IF n = 0 \/ Len(s) <= n THEN s ELSE SubSeq(s, 1, n)

\* C32 (as stated): after an append update with window N the rendered keys
\* are the last N of the keys rendered before followed by the batch's keys
\* in order, without de-duplication against the keys already rendered.
C32_AppendKeepsLastN ==
  (listObs.n > 0 /\ isAppendOnly(insert.strategy)) =>
    ItemKeys(children) =
      LastN(ItemKeys(listObs.before)
              \o DerivedKeys(listObs.batch, insert.keyExpr), insert.window)

\* C32 (amended): ... after an append update that is not rejected for the
\* keys of its batch; a rejected batch leaves the rendered keys as they were.
C32_AcceptedAppendKeepsLastN ==
  (listObs.n > 0 /\ isAppendOnly(insert.strategy)) =>
    ItemKeys(children) =
      IF EventsOf("error") # {} THEN ItemKeys(listObs.before)
      ELSE LastN(ItemKeys(listObs.before)
                   \o DerivedKeys(listObs.batch, insert.keyExpr),
                 insert.window)

\* an append trimmed the head, and a key rendered before came in again
C32_Witness ==
  /\ isAppendOnly(insert.strategy)
  /\ insert.window = 2
  /\ EventsOf("remove") # {}
  /\ EventsOf("add") # {}
  /\ ItemKeys(children) = <<"a", "a">>
  /\ listObs.batch = <<"a">>
  /\ Len(currentItemNodes(listObs.before)) = 2

\* C33: after a prepend update with window N (of a batch that is not
\* rejected for its keys) the rendered keys are the first N of the batch's
\* keys in order followed by the keys rendered before, wherever the template
\* sits among the children.
C33_PrependKeepsFirstN ==
  (listObs.n > 0 /\ isPrependOnly(insert.strategy)
     /\ EventsOf("error") = {}) =>
    ItemKeys(children) =
      FirstN(DerivedKeys(listObs.batch, insert.keyExpr)
               \o ItemKeys(listObs.before), insert.window)

\* C34: key names that differ only in letter case denote the same entry of
\* the state's value on every access path: whatever spelling and path wrote
\* last, a read through a reference and a read by a model binding return
\* that value under every spelling.
C34_SpellingsAlias ==
  keyedObs.path # "none" =>
    \A prop \in Spellings :
      /\ refGet(keyed, prop) = keyedObs.v
      /\ pull(keyed, prop) = keyedObs.v

\* the log entries a step adds
Logged(old, new, t) ==
  {i \in (Len(old) + 1)..Len(new) : new[i].t = t}

\* C35: an exception thrown by a binding's update, by a store or URL write
\* or by an `update` listener does not escape the flush: the step that meets
\* it goes on to the next state or binding (the event is still dispatched),
\* every binding scheduled in the flush has run when the flush ends, and
\* the render flag agrees with the queue, so that a later write queues a
\* new flush.
C35_ThrowDoesNotEscape ==
  /\ [](/\ (pc = "done" /\ LogIdx("throw") # {}) =>
             \A b \in expected : RunsOf(b) # {}
        /\ renderQueued <=> RendersQueued = 1)
  /\ [][Logged(flushLog, flushLog', "throw") # {} =>
          /\ pc' = pc
          /\ pc = "runBindingsFor" => toRun' = Tail(toRun)
          /\ pc = "flushStateUpdates" =>
                /\ todo' = Tail(todo)
                /\ Logged(flushLog, flushLog', "update") # {}
                /\ pendingKeys'[Head(todo)] = <<>>]_vars

\* a flush that met an exception in processState and one in the first of
\* several bindings has ended
C35_Witness ==
  /\ pc = "done"
  /\ \E i \in LogIdx("throw") : flushLog[i].who # "update()"
  /\ \E i \in LogIdx("throw") :
       /\ flushLog[i].who = "update()"
       /\ \E j \in LogIdx("run") : j > i
  /\ Cardinality(expected) >= 2

\* C36: once the element of a registered state or source has left the tree
\* and its cleanup has run, the registry no longer holds its name for it (a
\* later definition of that name is accepted); and a cleanup deletes no
\* entry held by another definition.
C36_CleanupFreesOwnName ==
  /\ [](\A el \in DefEls :
          defEls[el].stage = "gone" /\ defEls[el].name # None =>
            registry[kindOf(el)][defEls[el].name] # el)
  /\ [][\A kind \in {"states", "srcs"}, name \in DefNames :
          (registry[kind][name] # None /\ registry'[kind][name] = None) =>
            defEls'[registry[kind][name]].stage = "gone"]_vars

\* what the clauses mean: an entry per `event: code` clause, each later
\* clause without an event name joined to the entry before it
RECURSIVE WholeEntries(_, _)
WholeEntries(clauses, out) ==
  IF clauses = <<>> THEN out
  ELSE LET c == Head(clauses) IN
    WholeEntries(Tail(clauses),
      IF c.event = None
      THEN [out EXCEPT ![Len(out)].code = @ \o <<";", " ">> \o c.code]
      ELSE Append(out, [event |-> <<c.event>>, code |-> c.code]))

\* C37: handler code with a ternary or an object literal stays whole: every
\* `event: code` clause, with the later clauses that do not repeat an event
\* name, is returned as one entry under its event, and no part of the code
\* becomes an entry of its own or an event name.
C37_HandlerCodeStaysWhole ==
  onAttr.parsed => onAttr.out = WholeEntries(onAttr.clauses, <<>>)

\* state s's own `update` listener writes key q of s while processState(s)
\* is dispatching the event
OwnListenerWrite(s) ==
  /\ pc = "flushStateUpdates"
  /\ todo # <<>>
  /\ Head(todo) = s
  /\ <<s, "q">> \notin lateWritten
  /\ <<s, "q">> \in lateWritten'

\* C38: a key written by a state's own `update` listener during the dispatch
\* is not lost: it is still pending when processState returns, which is what
\* makes the next flush report it in `keys` and persist it.
C38_ListenerWriteStaysPending ==
  [][\A s \in States : OwnListenerWrite(s) => "q" \in Range(pendingKeys'[s])]_vars

\* C39: whenever the jtx-if element is in the tree, also after it was swapped
\* out and put back, the state defined inside it is registered, so that the
\* flush visits it (its writes produce `update` events and persistence).
C39_ReinsertedStateRegistered ==
  ~removed => RegistryGet(registered, "prefs") = "prefs"

\* C40: a flush caused solely by a write to a key other than the one the
\* append or prepend list iterates leaves the rendered nodes as they were
\* and fires no list event.
C40_OtherKeyLeavesList ==
  [][(feed.changed /\ feed.pendingKeys = {"other"} /\ insert # NoInsert) =>
       /\ Aged(children') = Aged(children)
       /\ (listObs' # listObs => listObs'.events = <<>>)]_vars
====
